---- MODULE Spec2Model ----
(***************************************************************************)
(* dm-unit: the host-side wrappers around the guest's B-tree and block     *)
(* manager entry points (src/src/wrappers), and the B-tree tests that      *)
(* drive them (src/src/tests/btree.rs).                                    *)
(*                                                                         *)
(* A wrapper is modelled as the sequence of fixture operations its body    *)
(* performs (allocate a guest buffer, set an argument register, call the   *)
(* guest, read a buffer back, free), executed one operation per step.      *)
(* Values are kept small: a guest address is a byte offset into a small    *)
(* heap and a register holds the signed reading of its 64 bits.            *)
(***************************************************************************)
EXTENDS Integers, Sequences, FiniteSets, TLC

VARIABLES
    tname,     \* the name of the test being run
    test,      \* the wrapper calls the test has still to make
    host,      \* the host-side values of the test (handles, root, cursors, inputs)
    saved,     \* host as it was when the running wrapper was entered
    w,         \* the wrapper being executed, or the last one executed
    prog,      \* the operation sequence of the wrapper being executed
    pc,        \* position in the wrapper's operation sequence, 0 between wrappers
    loc,       \* the wrapper's local guest pointers: name -> address
    vals,      \* the wrapper's local values read back from the guest: name -> value
    guards,    \* addresses owned by live scope guards (AutoGPtr), oldest first
    created,   \* addresses of the guest regions the running wrapper allocated
    mem,       \* guest memory: base address of each live allocation -> its bytes
    regs,      \* argument registers A0..A5
    a0ret,     \* <<A0>> as the last guest call left it, <<>> before any call
    reads,     \* local pointers read back since the wrapper was entered
    result,    \* what the last wrapper returned: kind "none", "Ok" or "Err"
    outcome,   \* outcome of the test: "running", "Ok" or "Err"
    live0,     \* the live allocations when the test started
    ipc,       \* position in do_insert_test_, "idle" when it is not running
    target,    \* target_residency of the insert scenario
    pass,      \* the pass of do_insert_test_ being made
    idx,       \* index into keys of the key being inserted or looked up
    commit_counter,  \* commit_counter of do_insert_test_
    tree,      \* the B-tree of the insert scenario: key -> value
    since,     \* inserts made since the last periodic commit, or since the start
    gaps,      \* since, as it was at each periodic commit
    residencies,     \* the residency measured at the end of each pass
    ret,       \* what do_insert_test_ returned: "none", "Ok" or "Err"
    fn,        \* the test helper being applied, "idle" when none is
    arg,       \* the arguments the helper is applied to
    out,       \* what the helper returned: "none", "Ok" or "Err"
    packed,    \* the bytes Guest::pack wrote
    unpacked,  \* what Guest::unpack made of them
    held,      \* block device: the lock handles held, each on a block
    bdata,     \* block device: the contents of each block
    lret,      \* block device: the last request and what it returned
    mop,       \* allocator: the last alloc or free and what it returned
    mprev,     \* allocator: guest memory as it was before that operation
    vst,       \* VM: "Idle", "Running", "Breakpoint", "Returned" or "Faulted"
    vpc,       \* VM: program counter
    vregs,     \* VM: register file
    instrs,    \* VM: retired-instruction counter
    frames,    \* fixture: the calls in progress, innermost last
    sphase,    \* the stub at the breakpoint: "none", or "after_nested" when its
               \* nested call has just returned
    outer,     \* the registers as they were when that nested call was made
    left,      \* the registers as that nested call left them
    baseline,  \* statistics: the instruction count at the last snapshot
    dispatched,      \* number of stub dispatches so far
    fetched,   \* addresses at which an instruction fetch was made
    bt,        \* BTreeTest: "none", "live", "dropping", or how it ended
    sb,        \* BTreeTest: the field sb, a lock handle
    dstep,     \* BTreeTest: the call of drop that is next
    events,    \* BTreeTest: the calls drop has made
    unlocks,   \* BTreeTest: the unlock requests made, each with whether the
               \* handle was held
    nops,      \* BTreeTest: number of inserts, lookups and commits so far
    last,      \* BTreeTest: the last operation and what it returned
    rpc,       \* do_redistribute_test: "none", "guest", "stub", "returned" or "done"
    rregs,     \* do_redistribute_test: the registers A0..A2
    trace,     \* do_redistribute_test: the Moves recorded
    called,    \* do_redistribute_test: the arguments of each memmove call made
    nbytes     \* do_redistribute_test: the bytes of the nodes

wvars == <<tname, test, host, saved, w, prog, pc, loc, vals, guards, created, mem, regs,
           a0ret, reads, result, outcome, live0>>

ivars == <<ipc, target, pass, idx, commit_counter, tree, since, gaps, residencies, ret>>

pvars == <<fn, arg, out, packed, unpacked>>

bvars == <<held, bdata, lret>>

avars == <<mop, mprev>>

vvars == <<vst, vpc, vregs, instrs, frames, sphase, outer, left, baseline, dispatched,
           fetched>>

tvars == <<bt, sb, dstep, events, unlocks, nops, last>>

rvars == <<rpc, rregs, trace, called, nbytes>>

\* the state outside the wrappers and do_insert_test_
xvars == <<pvars, bvars, avars, vvars, tvars, rvars>>

\* all but the helpers' state
others_p == <<wvars, ivars, bvars, avars, vvars, tvars, rvars>>

\* all but the block device's state
others_b == <<wvars, ivars, pvars, avars, vvars, tvars, rvars>>

\* all but the VM's state
others_v == <<wvars, ivars, pvars, bvars, avars, tvars, rvars>>

\* all but the state of BTreeTest and of the block device
others_t == <<wvars, ivars, pvars, avars, vvars, rvars>>

\* all but the state of do_redistribute_test
others_r == <<wvars, ivars, pvars, bvars, avars, vvars, tvars>>

\* all but guest memory and the allocator's state
others_a == <<tname, test, host, saved, w, prog, pc, loc, vals, guards, created, regs,
              a0ret, reads, result, outcome, live0, ivars, pvars, bvars, vvars,
              tvars, rvars>>

vars == <<wvars, ivars, xvars>>

-----------------------------------------------------------------------------
(* Bounds of the model *)

\* cursor positions (begin, end) range over 0..MaxPos
MaxPos == 2
\* the heap is the address range HeapBase .. HeapBase + HeapSize - 1
HeapSize == 160

-----------------------------------------------------------------------------
(* Little-endian marshalling *)

RECURSIVE LE(_, _)
\* write_uN::<LittleEndian>: the n bytes of x, least significant first
LE(x, n) == IF n = 0 THEN <<>> ELSE <<x % 256>> \o LE(x \div 256, n - 1)

RECURSIVE FromLE(_)
\* read_uN::<LittleEndian>: the value of a byte sequence
FromLE(bs) == IF bs = <<>> THEN 0 ELSE Head(bs) + 256 * FromLE(Tail(bs))

Slice(bs, off, n) == [i \in 1..n |-> bs[off + i]]

Max(a, b) == IF a >= b THEN a ELSE b

-----------------------------------------------------------------------------
(* The Guest implementations of the wrappers: guest_len, pack, unpack *)

\* Value64::guest_len
Value64_guest_len == 8

\* Value64::pack
Value64_pack(v) == LE(v, 8)

\* Value64::unpack
Value64_unpack(bs) == FromLE(Slice(bs, 0, 8))

\* BTreeValueType::guest_len: "4 functions ptrs and a u32"
BTreeValueType_guest_len == 4 * 8 + 4

\* BTreeValueType::pack, G = Value64
BTreeValueType_pack(vt) ==
    LE(vt.context, 8) \o LE(Value64_guest_len, 4) \o LE(0, 4)
        \o LE(vt.inc_fn, 8) \o LE(vt.dec_fn, 8) \o LE(vt.eq_fn, 8)

\* BTreeValueType::unpack reads the size and asserts size == G::guest_len()
BTreeValueType_size(bs) == FromLE(Slice(bs, 8, 4))

\* BTreeValueType::unpack, G = Value64
BTreeValueType_unpack(bs) ==
    [context |-> FromLE(Slice(bs, 0, 8)),
     inc_fn  |-> FromLE(Slice(bs, 16, 8)),
     dec_fn  |-> FromLE(Slice(bs, 24, 8)),
     eq_fn   |-> FromLE(Slice(bs, 32, 8))]

\* BTreeInfo::guest_len
BTreeInfo_guest_len == 8 + 4 + BTreeValueType_guest_len

\* BTreeInfo::pack
BTreeInfo_pack(info) ==
    LE(info.tm, 8) \o LE(info.levels, 4) \o LE(0, 4) \o BTreeValueType_pack(info.vtype)

\* BTreeInfo::unpack
BTreeInfo_unpack(bs) ==
    [tm     |-> FromLE(Slice(bs, 0, 8)),
     levels |-> FromLE(Slice(bs, 8, 4)),
     vtype  |-> BTreeValueType_unpack(Slice(bs, 16, Len(bs) - 16))]

\* CursorEntry::guest_len
CursorEntry_guest_len == 16

\* CursorEntry::pack
CursorEntry_pack(e) == LE(e.node, 8) \o LE(e.begin, 4) \o LE(e.end, 4)

\* a variant of CursorEntry::unpack that reads end before begin
CursorEntry_unpack_end_first(bs) ==
    [node  |-> FromLE(Slice(bs, 0, 8)),
     begin |-> FromLE(Slice(bs, 12, 4)),
     end   |-> FromLE(Slice(bs, 8, 4))]

\* CursorEntry::unpack
CursorEntry_unpack(bs) ==
    [node  |-> FromLE(Slice(bs, 0, 8)),
     begin |-> FromLE(Slice(bs, 8, 4)),
     end   |-> FromLE(Slice(bs, 12, 4))]

\* CopyCursor::guest_len
CopyCursor_guest_len == 56

\* the most entries a CopyCursor may hold: assert!(self.entries.len() <= 3)
MaxCursorEntries == 3

RECURSIVE PackEntries(_)
PackEntries(es) ==
    IF es = <<>> THEN <<>> ELSE CursorEntry_pack(Head(es)) \o PackEntries(Tail(es))

\* CopyCursor::pack
CopyCursor_pack(c) ==
    LE(Len(c.entries), 4) \o LE(c.index, 4) \o PackEntries(c.entries)

\* CopyCursor::unpack reads the count first and asserts count <= 3
CopyCursor_count(bs) == FromLE(Slice(bs, 0, 4))

\* CopyCursor::unpack
CopyCursor_unpack(bs) ==
    [index   |-> FromLE(Slice(bs, 4, 4)),
     entries |-> [i \in 1..CopyCursor_count(bs) |->
                     CursorEntry_unpack(Slice(bs, 8 + CursorEntry_guest_len * (i - 1),
                                              CursorEntry_guest_len))]]

-----------------------------------------------------------------------------
(* Guest memory: a live allocation is a base address mapped to its bytes *)

HeapBase == 8

\* the address range an allocation of n bytes at base b keeps for itself
Extent(n) == Max(n, 1)

Range(b, n) == b .. (b + Extent(n) - 1)

\* a variant of Fits that only looks at where the region starts
Fits_base_only(m, b, n) ==
    /\ b >= HeapBase
    /\ b + Extent(n) <= HeapBase + HeapSize
    /\ \A a \in DOMAIN m : b \notin Range(a, Len(m[a]))

Fits(m, b, n) ==
    /\ b >= HeapBase
    /\ b + Extent(n) <= HeapBase + HeapSize
    /\ \A a \in DOMAIN m : Range(a, Len(m[a])) \cap Range(b, n) = {}

\* where alloc(n) may place a region: at the bottom of the heap or right
\* after a live allocation
Candidates(m, n) ==
    {b \in {HeapBase} \cup {a + Extent(Len(m[a])) : a \in DOMAIN m} : Fits(m, b, n)}

\* alloc(len): the lowest unused region that fits
AllocBase(m, n) == CHOOSE b \in Candidates(m, n) : \A c \in Candidates(m, n) : b <= c

Zeros(n) == [i \in 1..n |-> 0]

\* the memory after alloc(len) returned base b
Alloc(m, b, bytes) == (b :> bytes) @@ m

\* the memory after free(base)
Free(m, b) == [a \in DOMAIN m \ {b} |-> m[a]]

\* the live allocation that holds the n bytes at address a, if any
Holder(m, a, n) == {b \in DOMAIN m : b <= a /\ a + n <= b + Len(m[b])}

\* read(addr, len, perm) succeeds
CanAccess(m, a, n) == Holder(m, a, n) # {}

\* read(addr, len, PERM_READ)
ReadBytes(m, a, n) ==
    LET b == CHOOSE x \in Holder(m, a, n) : TRUE
    IN  Slice(m[b], a - b, n)

\* write(addr, bytes, PERM_WRITE)
WriteBytes(m, a, bytes) ==
    LET b == CHOOSE x \in Holder(m, a, Len(bytes)) : TRUE
    IN  [m EXCEPT ![b] = [i \in 1..Len(@) |->
                             IF i > a - b /\ i <= a - b + Len(bytes)
                             THEN bytes[i - (a - b)] ELSE @[i]]]

-----------------------------------------------------------------------------
(* The guest: the entry points the wrappers call *)

Regs == {"A0", "A1", "A2", "A3", "A4", "A5"}

\* the errno the guest's consume_cursor returns when the cursor runs out
ENODATA == 61

\* values the guest may store through a pointer argument
OutVals == {1, 2}

RECURSIVE ConsumeLoop(_, _)
\* The guest's consume_cursor(cursor, len) on the unpacked structure: entries
\* consumed whole are stepped over by index, the last one has begin advanced.
ConsumeLoop(c, len) ==
    IF len = 0 THEN [ret |-> 0, c |-> c]
    ELSE IF c.index >= Len(c.entries) THEN [ret |-> -ENODATA, c |-> c]
    ELSE LET e     == c.entries[c.index + 1]
             avail == e.end - e.begin
         IN  IF avail > len
             THEN [ret |-> 0, c |-> [c EXCEPT !.entries[c.index + 1].begin = @ + len]]
             ELSE ConsumeLoop([c EXCEPT !.index = @ + 1], len - avail)

\* consume_cursor in the guest: A0 is the cursor structure, A1 the length
guest_consume_cursor(rg, m) ==
    IF ~CanAccess(m, rg["A0"], CopyCursor_guest_len)
    THEN {[fault |-> TRUE, a0 |-> 0, mem |-> m]}
    ELSE LET bs == ReadBytes(m, rg["A0"], CopyCursor_guest_len)
             r  == ConsumeLoop(CopyCursor_unpack(bs), rg["A1"])
         IN  {[fault |-> FALSE, a0 |-> r.ret,
               mem |-> WriteBytes(m, rg["A0"], CopyCursor_pack(r.c))]}

\* the guest stores v at the start of every live region an argument register
\* points to
GuestStore(rg, m, v) ==
    [b \in DOMAIN m |->
        IF \E r \in Regs : rg[r] = b
        THEN [i \in 1..Len(m[b]) |-> IF i <= 8 THEN LE(v, 8)[i] ELSE m[b][i]]
        ELSE m[b]]

\* an entry point whose code is not modelled: it faults, or returns zero or
\* an errno, having stored through its pointer arguments or not
guest_other(rg, m) ==
    {[fault |-> TRUE, a0 |-> 0, mem |-> m]}
    \cup {[fault |-> FALSE, a0 |-> e, mem |-> mm] :
            e \in {0, -ENODATA}, mm \in {m} \cup {GuestStore(rg, m, v) : v \in OutVals}}

\* an entry point that creates an object with the guest's kmalloc and returns
\* its address in A0 (or an error pointer)
guest_create(rg, m) ==
    {[fault |-> TRUE, a0 |-> 0, mem |-> m]}
    \cup {[fault |-> FALSE, a0 |-> -ENODATA, mem |-> m]}
    \cup IF Candidates(m, 8) = {} THEN {}
         ELSE {[fault |-> FALSE, a0 |-> AllocBase(m, 8),
                mem |-> Alloc(m, AllocBase(m, 8), Zeros(8))]}

\* an entry point that creates two objects and stores their addresses through
\* the pointers in A2 and A3
guest_create_out(rg, m) ==
    {[fault |-> TRUE, a0 |-> 0, mem |-> m]}
    \cup {[fault |-> FALSE, a0 |-> -ENODATA, mem |-> m]}
    \cup IF Candidates(m, 8) = {} \/ ~CanAccess(m, rg["A2"], 8) \/ ~CanAccess(m, rg["A3"], 8)
         THEN {}
         ELSE LET tm == AllocBase(m, 8)
                  m1 == Alloc(m, tm, Zeros(8))
              IN  IF Candidates(m1, 8) = {} THEN {}
                  ELSE LET sm == AllocBase(m1, 8)
                       IN  {[fault |-> FALSE, a0 |-> 0,
                             mem |-> WriteBytes(WriteBytes(Alloc(m1, sm, Zeros(8)),
                                                           rg["A2"], LE(tm, 8)),
                                                rg["A3"], LE(sm, 8))]}

\* an entry point that destroys the object in A0 with the guest's kfree
guest_destroy(rg, m) ==
    IF rg["A0"] \in DOMAIN m
    THEN {[fault |-> FALSE, a0 |-> 0, mem |-> Free(m, rg["A0"])]}
    ELSE {[fault |-> TRUE, a0 |-> 0, mem |-> m]}

\* what a call of the guest symbol sym may do
GuestCall(sym, rg, m) ==
    CASE sym = "consume_cursor" -> guest_consume_cursor(rg, m)
      [] sym = "dm_block_manager_create" -> guest_create(rg, m)
      [] sym = "dm_tm_create_with_sm" -> guest_create_out(rg, m)
      [] sym \in {"dm_block_manager_destroy", "dm_tm_destroy"} -> guest_destroy(rg, m)
      [] OTHER -> guest_other(rg, m)

-----------------------------------------------------------------------------
(* The operations a wrapper's body is made of *)

\* ensure!(cond)
OpEnsure(c) == [op |-> "ensure", ok |-> c]
\* let buf = fix.vm.mem.alloc(size)?
OpAlloc(buf, size) == [op |-> "alloc", buf |-> buf, size |-> size]
\* let buf = alloc_guest(&mut fix.vm.mem, v, perms)?  (bytes = v packed)
OpAllocGuest(buf, bytes, glen) ==
    [op |-> "alloc_guest", buf |-> buf, bytes |-> bytes, glen |-> glen]
\* fix.vm.mem.write(Addr(buf.0 + off), bytes, PERM_WRITE)?
OpWrite(buf, off, bytes) == [op |-> "write", buf |-> buf, off |-> off, bytes |-> bytes]
\* AutoGPtr::new(fix, buf)
OpGuard(buf) == [op |-> "guard", buf |-> buf]
\* fix.vm.set_reg(reg, v)
OpSetReg(reg, v) == [op |-> "set_reg", reg |-> reg, v |-> v]
\* fix.vm.set_reg(reg, buf.0)
OpSetRegPtr(reg, buf) == [op |-> "set_reg_ptr", reg |-> reg, buf |-> buf]
\* fix.call(sym)?
OpCall(sym) == [op |-> "call", sym |-> sym]
\* fix.call_with_errno(sym)?
OpCallErrno(sym) == [op |-> "call_with_errno", sym |-> sym]
\* let dst = fix.vm.reg(reg)
OpReadReg(reg, dst) == [op |-> "read_reg", reg |-> reg, dst |-> dst]
\* if src != 0 { return Err(..) }
OpCheckZero(src) == [op |-> "check_zero", src |-> src]
\* let dst = fix.vm.mem.read_into::<uN>(Addr(buf.0 + off), PERM_READ)?
OpReadInto(buf, off, n, dst) ==
    [op |-> "read_into", buf |-> buf, off |-> off, n |-> n, dst |-> dst]
\* let dst = read_guest::<T>(&fix.vm.mem, buf)?
OpReadGuest(buf, ty, dst) == [op |-> "read_guest", buf |-> buf, ty |-> ty, dst |-> dst]
\* fix.vm.mem.free(buf)?
OpFree(buf) == [op |-> "free", buf |-> buf]
\* *field = src
OpStore(field, src) == [op |-> "store", field |-> field, src |-> src]
\* Ok(rets)
OpOk(rets) == [op |-> "ok", rets |-> rets]

\* names of the keys read back one by one
RKey(i) == <<"rkey1", "rkey2", "rkey3">>[i]

-----------------------------------------------------------------------------
(* Scoped guest-memory helpers *)

\* auto_alloc(fix, len): a region and the guard that frees it
auto_alloc(buf, size) == <<OpAlloc(buf, size), OpGuard(buf)>>

\* auto_guest(fix, v, perms): a region holding v packed, and its guard
auto_guest(buf, bytes, glen) == <<OpAllocGuest(buf, bytes, glen), OpGuard(buf)>>

\* auto_info
auto_info(buf, info) ==
    <<OpAllocGuest(buf, BTreeInfo_pack(info), BTreeInfo_guest_len), OpGuard(buf)>>

\* auto_keys
\* a variant of auto_keys that never hands the key array to a scope guard
auto_keys_unguarded(buf, keys) ==
    <<OpAlloc(buf, 8 * Len(keys))>>
        \o [i \in 1..Len(keys) |-> OpWrite(buf, 8 * (i - 1), LE(keys[i], 8))]

auto_keys(buf, keys) ==
    <<OpAlloc(buf, 8 * Len(keys))>>
        \o [i \in 1..Len(keys) |-> OpWrite(buf, 8 * (i - 1), LE(keys[i], 8))]
        \o <<OpGuard(buf)>>

-----------------------------------------------------------------------------
(* wrappers/block_manager.rs *)

dm_bm_create(h) ==
    <<OpAlloc("bdev", 8),
      OpWrite("bdev", 0, LE(h.nr_blocks, 8)),
      OpSetRegPtr("A0", "bdev"),
      OpSetReg("A1", 4096),
      OpSetReg("A2", 16),
      OpCall("dm_block_manager_create"),
      OpReadReg("A0", "r"),
      OpOk(<<"r">>)>>

dm_bm_destroy(h) ==
    <<OpSetReg("A0", h.bm), OpCall("dm_block_manager_destroy"), OpOk(<<>>)>>

dm_bm_block_size(h) ==
    <<OpSetReg("A0", h.bm), OpCall("dm_bm_block_size"), OpReadReg("A0", "r"),
      OpOk(<<"r">>)>>

dm_bm_nr_blocks(h) ==
    <<OpSetReg("A0", h.bm), OpCall("dm_bm_nr_blocks"), OpReadReg("A0", "r"),
      OpOk(<<"r">>)>>

\* a variant of lock_ that frees the result buffer before it reads it
lock_free_first(h, lock_fn) ==
    <<OpSetReg("A0", h.bm),
      OpSetReg("A1", h.b),
      OpSetReg("A2", h.validator),
      OpAlloc("result", 8),
      OpSetRegPtr("A3", "result"),
      OpCall(lock_fn),
      OpReadReg("A0", "r"),
      OpCheckZero("r"),
      OpFree("result"),
      OpReadInto("result", 0, 8, "block"),
      OpOk(<<"block">>)>>

\* a variant of lock_ that does not look at the guest's return value
lock_unchecked(h, lock_fn) ==
    <<OpSetReg("A0", h.bm),
      OpSetReg("A1", h.b),
      OpSetReg("A2", h.validator),
      OpAlloc("result", 8),
      OpSetRegPtr("A3", "result"),
      OpCall(lock_fn),
      OpReadInto("result", 0, 8, "block"),
      OpFree("result"),
      OpOk(<<"block">>)>>

lock_(h, lock_fn) ==
    <<OpSetReg("A0", h.bm),
      OpSetReg("A1", h.b),
      OpSetReg("A2", h.validator),
      OpAlloc("result", 8),
      OpSetRegPtr("A3", "result"),
      OpCall(lock_fn),
      OpReadReg("A0", "r"),
      OpCheckZero("r"),
      OpReadInto("result", 0, 8, "block"),
      OpFree("result"),
      OpOk(<<"block">>)>>

dm_bm_read_lock(h) == lock_(h, "dm_bm_read_lock")

dm_bm_write_lock(h) == lock_(h, "dm_bm_write_lock")

dm_bm_write_lock_zero(h) == lock_(h, "dm_bm_write_lock_zero")

dm_bm_unlock(h) ==
    <<OpSetReg("A0", h.block), OpCall("dm_bm_unlock"), OpOk(<<>>)>>

dm_block_location(h) ==
    <<OpSetReg("A0", h.block), OpCall("dm_block_location"), OpReadReg("A0", "r"),
      OpOk(<<"r">>)>>

dm_block_data(h) ==
    <<OpSetReg("A0", h.block), OpCall("dm_block_data"), OpReadReg("A0", "r"),
      OpOk(<<"r">>)>>

-----------------------------------------------------------------------------
(* wrappers/btree.rs, with G = Value64 *)

dm_btree_empty(h) ==
    auto_info("info", h.info)
        \o <<OpSetRegPtr("A0", "info")>>
        \o auto_alloc("result", 8)
        \o <<OpSetRegPtr("A1", "result"),
             OpCallErrno("dm_btree_empty"),
             OpReadInto("result", 0, 8, "root"),
             OpOk(<<"root">>)>>

dm_btree_del(h) ==
    auto_info("info", h.info)
        \o <<OpSetRegPtr("A0", "info"),
             OpSetReg("A1", h.root),
             OpCallErrno("dm_btree_del"),
             OpOk(<<>>)>>

dm_btree_insert(h) ==
    auto_info("info", h.info)
        \o auto_keys("keys", h.keys)
        \o auto_guest("value", Value64_pack(h.value), Value64_guest_len)
        \o auto_alloc("new_root", 8)
        \o <<OpSetRegPtr("A0", "info"),
             OpSetReg("A1", h.root),
             OpSetRegPtr("A2", "keys"),
             OpSetRegPtr("A3", "value"),
             OpSetRegPtr("A4", "new_root"),
             OpCallErrno("dm_btree_insert"),
             OpReadInto("new_root", 0, 8, "root"),
             OpOk(<<"root">>)>>

dm_btree_insert_notify(h) ==
    auto_info("info", h.info)
        \o auto_keys("keys", h.keys)
        \o auto_guest("value", Value64_pack(h.value), Value64_guest_len)
        \o auto_alloc("new_root", 8)
        \o auto_alloc("inserted", 4)
        \o <<OpSetRegPtr("A0", "info"),
             OpSetReg("A1", h.root),
             OpSetRegPtr("A2", "keys"),
             OpSetRegPtr("A3", "value"),
             OpSetRegPtr("A4", "new_root"),
             OpSetRegPtr("A5", "inserted"),
             OpCallErrno("dm_btree_insert_notify"),
             OpReadInto("new_root", 0, 8, "root"),
             OpReadInto("inserted", 0, 4, "ins"),
             OpOk(<<"root", "ins">>)>>

dm_btree_lookup(h) ==
    <<OpEnsure(Len(h.keys) = h.info.levels)>>
        \o auto_info("info", h.info)
        \o <<OpSetRegPtr("A0", "info"), OpSetReg("A1", h.root)>>
        \o auto_keys("keys", h.keys)
        \o <<OpSetRegPtr("A2", "keys")>>
        \o auto_alloc("value", Value64_guest_len)
        \o <<OpSetRegPtr("A3", "value"),
             OpCallErrno("dm_btree_lookup"),
             OpReadGuest("value", "Value64", "v"),
             OpOk(<<"v">>)>>

dm_btree_lookup_next(h) ==
    <<OpEnsure(Len(h.keys) = h.info.levels)>>
        \o auto_info("info", h.info)
        \o <<OpSetRegPtr("A0", "info"), OpSetReg("A1", h.root)>>
        \o auto_keys("keys", h.keys)
        \o <<OpSetRegPtr("A2", "keys")>>
        \o auto_alloc("rkeys", 8 * h.info.levels)
        \o <<OpSetRegPtr("A3", "rkeys")>>
        \o auto_alloc("value", Value64_guest_len)
        \o <<OpCallErrno("dm_btree_lookup_next")>>
        \o [i \in 1..Len(h.keys) |-> OpReadInto("rkeys", 8 * (i - 1), 8, RKey(i))]
        \o <<OpReadGuest("value", "Value64", "v"),
             OpOk([i \in 1..Len(h.keys) |-> RKey(i)] \o <<"v">>)>>

\* a variant of dm_btree_remove that checks the key vector after it has
\* built the BTreeInfo and set its registers
dm_btree_remove_late_ensure(h) ==
    auto_info("info", h.info)
        \o <<OpSetRegPtr("A0", "info"), OpSetReg("A1", h.root)>>
        \o <<OpEnsure(Len(h.keys) = h.info.levels)>>
        \o auto_keys("keys", h.keys)
        \o <<OpSetRegPtr("A2", "keys")>>
        \o auto_alloc("new_root", 8)
        \o <<OpSetRegPtr("A3", "new_root"),
             OpCallErrno("dm_btree_remove"),
             OpReadInto("new_root", 0, 8, "root"),
             OpOk(<<"root">>)>>

dm_btree_remove(h) ==
    <<OpEnsure(Len(h.keys) = h.info.levels)>>
        \o auto_info("info", h.info)
        \o <<OpSetRegPtr("A0", "info"), OpSetReg("A1", h.root)>>
        \o auto_keys("keys", h.keys)
        \o <<OpSetRegPtr("A2", "keys")>>
        \o auto_alloc("new_root", 8)
        \o <<OpSetRegPtr("A3", "new_root"),
             OpCallErrno("dm_btree_remove"),
             OpReadInto("new_root", 0, 8, "root"),
             OpOk(<<"root">>)>>

dm_btree_remove_leaves(h) ==
    <<OpEnsure(Len(h.keys) = h.info.levels)>>
        \o auto_info("info", h.info)
        \o auto_keys("keys", h.keys)
        \o auto_alloc("new_root", 8)
        \o auto_alloc("inserted", 4)
        \o <<OpSetRegPtr("A0", "info"),
             OpSetReg("A1", h.root),
             OpSetRegPtr("A2", "keys"),
             OpSetReg("A3", h.end_key),
             OpSetRegPtr("A4", "new_root"),
             OpCallErrno("dm_btree_remove_leaves"),
             OpReadInto("new_root", 0, 8, "root"),
             OpReadInto("inserted", 0, 4, "ins"),
             OpOk(<<"root", "ins">>)>>

dm_btree_find_lowest_key(h) ==
    auto_info("info", h.info)
        \o auto_alloc("rkeys", 8 * h.info.levels)
        \o <<OpSetRegPtr("A0", "info"),
             OpSetReg("A1", h.root),
             OpSetRegPtr("A2", "rkeys"),
             OpCallErrno("dm_btree_find_lowest_key")>>
        \o [i \in 1..h.info.levels |-> OpReadInto("rkeys", 8 * (i - 1), 8, RKey(i))]
        \o <<OpOk([i \in 1..h.info.levels |-> RKey(i)])>>

dm_btree_find_highest_key(h) ==
    auto_info("info", h.info)
        \o auto_alloc("rkeys", 8 * h.info.levels)
        \o <<OpSetRegPtr("A0", "info"),
             OpSetReg("A1", h.root),
             OpSetRegPtr("A2", "rkeys"),
             OpCallErrno("dm_btree_find_highest_key")>>
        \o [i \in 1..h.info.levels |-> OpReadInto("rkeys", 8 * (i - 1), 8, RKey(i))]
        \o <<OpOk([i \in 1..h.info.levels |-> RKey(i)])>>

\* a variant of consume_cursor that drops the cursor it read back
consume_cursor_no_store(h) ==
    auto_guest("guest", CopyCursor_pack(h.cursor), CopyCursor_guest_len)
        \o <<OpSetRegPtr("A0", "guest"),
             OpSetReg("A1", h.len),
             OpCallErrno("consume_cursor"),
             OpReadGuest("guest", "CopyCursor", "new_cursor"),
             OpOk(<<>>)>>

\* a variant of consume_cursor that calls the guest without the errno check
consume_cursor_ignore_errno(h) ==
    auto_guest("guest", CopyCursor_pack(h.cursor), CopyCursor_guest_len)
        \o <<OpSetRegPtr("A0", "guest"),
             OpSetReg("A1", h.len),
             OpCall("consume_cursor"),
             OpReadGuest("guest", "CopyCursor", "new_cursor"),
             OpStore("cursor", "new_cursor"),
             OpOk(<<>>)>>

\* a variant of consume_cursor that passes one more than len in A1
consume_cursor_len_plus_one(h) ==
    auto_guest("guest", CopyCursor_pack(h.cursor), CopyCursor_guest_len)
        \o <<OpSetRegPtr("A0", "guest"),
             OpSetReg("A1", h.len + 1),
             OpCallErrno("consume_cursor"),
             OpReadGuest("guest", "CopyCursor", "new_cursor"),
             OpStore("cursor", "new_cursor"),
             OpOk(<<>>)>>

consume_cursor(h) ==
    auto_guest("guest", CopyCursor_pack(h.cursor), CopyCursor_guest_len)
        \o <<OpSetRegPtr("A0", "guest"),
             OpSetReg("A1", h.len),
             OpCallErrno("consume_cursor"),
             OpReadGuest("guest", "CopyCursor", "new_cursor"),
             OpStore("cursor", "new_cursor"),
             OpOk(<<>>)>>

redistribute_entries(h) ==
    auto_guest("dest", CopyCursor_pack(h.dest), CopyCursor_guest_len)
        \o auto_guest("src", CopyCursor_pack(h.src), CopyCursor_guest_len)
        \o <<OpSetRegPtr("A0", "dest"),
             OpSetRegPtr("A1", "src"),
             OpSetReg("A2", h.len),
             OpCallErrno("redistribute_entries"),
             OpReadGuest("dest", "CopyCursor", "new_dest"),
             OpStore("dest", "new_dest"),
             OpReadGuest("src", "CopyCursor", "new_src"),
             OpStore("src", "new_src"),
             OpOk(<<>>)>>

\* wrappers/transaction_manager.rs: dm_tm_create(fix, bm, sb) -> (tm, sm)
dm_tm_create(h) ==
    auto_alloc("tm", 8)
        \o auto_alloc("sm", 8)
        \o <<OpSetReg("A0", h.bm),
             OpSetReg("A1", 0),
             OpSetRegPtr("A2", "tm"),
             OpSetRegPtr("A3", "sm"),
             OpCallErrno("dm_tm_create_with_sm"),
             OpReadInto("tm", 0, 8, "tmv"),
             OpReadInto("sm", 0, 8, "smv"),
             OpOk(<<"tmv", "smv">>)>>

\* the operation sequence of wrapper name, entered with host values h
ProgOf(name, h) ==
    CASE name = "dm_bm_create" -> dm_bm_create(h)
      [] name = "dm_bm_destroy" -> dm_bm_destroy(h)
      [] name = "dm_bm_block_size" -> dm_bm_block_size(h)
      [] name = "dm_bm_nr_blocks" -> dm_bm_nr_blocks(h)
      [] name = "dm_bm_read_lock" -> dm_bm_read_lock(h)
      [] name = "dm_bm_write_lock" -> dm_bm_write_lock(h)
      [] name = "dm_bm_write_lock_zero" -> dm_bm_write_lock_zero(h)
      [] name = "dm_bm_unlock" -> dm_bm_unlock(h)
      [] name = "dm_block_location" -> dm_block_location(h)
      [] name = "dm_block_data" -> dm_block_data(h)
      [] name = "dm_btree_empty" -> dm_btree_empty(h)
      [] name = "dm_btree_del" -> dm_btree_del(h)
      [] name = "dm_btree_insert" -> dm_btree_insert(h)
      [] name = "dm_btree_insert_notify" -> dm_btree_insert_notify(h)
      [] name = "dm_btree_lookup" -> dm_btree_lookup(h)
      [] name = "dm_btree_lookup_next" -> dm_btree_lookup_next(h)
      [] name = "dm_btree_remove" -> dm_btree_remove(h)
      [] name = "dm_btree_remove_leaves" -> dm_btree_remove_leaves(h)
      [] name = "dm_btree_find_lowest_key" -> dm_btree_find_lowest_key(h)
      [] name = "dm_btree_find_highest_key" -> dm_btree_find_highest_key(h)
      [] name = "consume_cursor" -> consume_cursor(h)
      [] name = "redistribute_entries" -> redistribute_entries(h)
      [] name = "dm_tm_create" -> dm_tm_create(h)

-----------------------------------------------------------------------------
(* The tests: sequences of wrapper calls, each binding the values returned *)
(* to host-side variables                                                  *)

\* let (bind) = call(fix, ...)?
Stmt(call, bind) == [call |-> call, bind |-> bind]

\* tests/btree.rs: test_del_empty
test_del_empty ==
    <<Stmt("dm_bm_create", <<"bm">>),
      Stmt("dm_tm_create", <<"tm", "sm">>),
      Stmt("dm_btree_empty", <<"root">>),
      Stmt("dm_btree_del", <<>>)>>

\* the wrappers that take a key vector
KeyedWrappers ==
    {"dm_btree_insert", "dm_btree_insert_notify", "dm_btree_lookup",
     "dm_btree_lookup_next", "dm_btree_remove", "dm_btree_remove_leaves"}

\* the wrappers that take a BTreeInfo and no key vector
InfoWrappers ==
    {"dm_btree_empty", "dm_btree_del", "dm_btree_find_lowest_key",
     "dm_btree_find_highest_key"}

\* the wrappers of the block manager
BmWrappers ==
    {"dm_bm_create", "dm_bm_destroy", "dm_bm_block_size", "dm_bm_nr_blocks",
     "dm_bm_read_lock", "dm_bm_write_lock", "dm_bm_write_lock_zero",
     "dm_bm_unlock", "dm_block_location", "dm_block_data"}

LockWrappers == {"dm_bm_read_lock", "dm_bm_write_lock", "dm_bm_write_lock_zero"}

BTreeWrappers == KeyedWrappers \cup InfoWrappers

ErrnoWrappers ==
    BTreeWrappers \cup {"consume_cursor", "redistribute_entries"} \cup LockWrappers

\* the host-side values a test starts with
Host0 ==
    [nr_blocks |-> 1024, bm |-> 0, tm |-> 0, sm |-> 0, block |-> 0, b |-> 0,
     validator |-> 0, root |-> 0, keys |-> <<>>, value |-> 0, end_key |-> 0,
     len |-> 0,
     info |-> [tm |-> 0, levels |-> 1,
               vtype |-> [context |-> 0, inc_fn |-> 0, dec_fn |-> 0, eq_fn |-> 0]],
     cursor |-> [index |-> 0, entries |-> <<>>],
     dest |-> [index |-> 0, entries |-> <<>>],
     src |-> [index |-> 0, entries |-> <<>>]]

\* cursor entries with begin <= end
Entries == {e \in [node : {0}, begin : 0..MaxPos, end : 0..MaxPos] : e.begin <= e.end}

EntrySeqs == UNION {[1..n -> Entries] : n \in 0..MaxCursorEntries}

Cursors == {[index |-> i, entries |-> es] : i \in 0..MaxCursorEntries, es \in EntrySeqs}

\* the lengths a test consumes: up to one more than any cursor holds
Lens == 0..(MaxCursorEntries * MaxPos + 1)

\* key vectors and tree depths
KeySeqs == {<<>>, <<3>>, <<3, 4>>}
Levels == {1, 2}

NoRegs == [r \in Regs |-> 0]

\* the heap holds sz bytes allocated before the test calls a wrapper
PreMem(sz) == IF sz = 0 THEN <<>> ELSE (HeapBase :> Zeros(sz))

\* how much of the heap other allocations may hold when a wrapper is called
PreSizes == {sz \in 0..HeapSize : sz % 8 = 0}

\* a test that calls one wrapper
Single(n) == <<Stmt(n, <<>>)>>

\* the cursors of do_redistribute_2(lhs, rhs)
RedistDest(l, r) ==
    [index |-> 0,
     entries |-> <<[node |-> 0, begin |-> 0, end |-> (l + r) \div 2],
                   [node |-> 1, begin |-> 0, end |-> (l + r) - (l + r) \div 2]>>]

RedistSrc(l, r) ==
    [index |-> 0,
     entries |-> <<[node |-> 0, begin |-> 0, end |-> l],
                   [node |-> 1, begin |-> 0, end |-> r]>>]

\* no test helper is being applied
\* nothing has been unpacked
NotUnpacked == [st |-> "none", v |-> <<>>]

PureIdle ==
    /\ fn = "idle"
    /\ arg = <<>>
    /\ out = "none"
    /\ packed = <<>>
    /\ unpacked = NotUnpacked

\* blocks of the simulated device
NrBlocks == 2

Blocks == 0..(NrBlocks - 1)

\* the block device with no lock held and every block zero
BlockDevIdle ==
    /\ held = {}
    /\ bdata = [b \in Blocks |-> 0]
    /\ lret = [op |-> "none", b |-> 0, ok |-> TRUE]

\* no alloc or free has been made directly
AllocIdle ==
    /\ mop = [op |-> "none", arg |-> 0, ok |-> TRUE, err |-> "", addr |-> 0]
    /\ mprev = <<>>

\* registers of the VM: three of the argument registers, the stack pointer
\* and the return-address register
VRegs == {"A0", "A1", "A2", "SP", "RA"}

\* the VM before its first call
VmIdle ==
    /\ vst = "Idle"
    /\ vpc = 0
    /\ vregs = [r \in VRegs |-> 0]
    /\ instrs = 0
    /\ frames = <<>>
    /\ sphase = "none"
    /\ outer = [r \in VRegs |-> 0]
    /\ left = [r \in VRegs |-> 0]
    /\ baseline = 0
    /\ dispatched = 0
    /\ fetched = {}

\* no lock handle
NoHandle == [id |-> 0, b |-> 0, kind |-> "none"]

\* no BTreeTest has been made
HarnessIdle ==
    /\ bt = "none"
    /\ sb = NoHandle
    /\ dstep = 0
    /\ events = <<>>
    /\ unlocks = <<>>
    /\ nops = 0
    /\ last = [op |-> "none", ok |-> TRUE]

\* do_redistribute_test is not running
RedistIdle ==
    /\ rpc = "none"
    /\ rregs = [r \in {"A0", "A1", "A2"} |-> 0]
    /\ trace = <<>>
    /\ called = <<>>
    /\ nbytes = <<>>

\* nothing outside the wrappers and do_insert_test_ is running
XIdle == PureIdle /\ BlockDevIdle /\ AllocIdle /\ VmIdle /\ HarnessIdle /\ RedistIdle

\* do_insert_test_ is not running
InsertIdle ==
    /\ ipc = "idle"
    /\ target = 0
    /\ pass = 0
    /\ idx = 0
    /\ commit_counter = 0
    /\ tree = <<>>
    /\ since = 0
    /\ gaps = <<>>
    /\ residencies = <<>>
    /\ ret = "none"

Init ==
    /\ \/ /\ tname = "test_del_empty"
          /\ test = test_del_empty
          /\ host = Host0
          /\ mem \in {PreMem(0), PreMem(8)}
       \/ \E n \in BmWrappers \cup {"dm_tm_create"}, sz \in PreSizes :
             /\ tname = n
             /\ test = Single(n)
             /\ host = Host0
             /\ mem = PreMem(sz)
       \/ \E n \in InfoWrappers, lv \in Levels, sz \in PreSizes :
             /\ tname = n
             /\ test = Single(n)
             /\ host = [Host0 EXCEPT !.info.levels = lv]
             /\ mem = PreMem(sz)
       \/ \E n \in KeyedWrappers, lv \in Levels, ks \in KeySeqs, sz \in PreSizes :
             /\ tname = n
             /\ test = Single(n)
             /\ host = [Host0 EXCEPT !.info.levels = lv, !.keys = ks]
             /\ mem = PreMem(sz)
       \/ \E c \in Cursors, k \in Lens :
             /\ tname = "consume_cursor"
             /\ test = Single("consume_cursor")
             /\ host = [Host0 EXCEPT !.cursor = c, !.len = k]
             /\ mem = PreMem(0)
       \/ \E k \in Lens, sz \in PreSizes :
             /\ tname = "consume_cursor"
             /\ test = Single("consume_cursor")
             /\ host = [Host0 EXCEPT !.cursor = RedistSrc(1, MaxPos), !.len = k]
             /\ mem = PreMem(sz)
       \/ \E l \in 0..MaxPos, r \in 0..MaxPos, sz \in PreSizes :
             /\ tname = "redistribute_entries"
             /\ test = Single("redistribute_entries")
             /\ host = [Host0 EXCEPT !.dest = RedistDest(l, r), !.src = RedistSrc(l, r),
                                     !.len = l + r]
             /\ mem = PreMem(sz)
    /\ saved = host
    /\ w = ""
    /\ prog = <<>>
    /\ pc = 0
    /\ loc = <<>>
    /\ vals = <<>>
    /\ guards = <<>>
    /\ created = {}
    /\ regs = NoRegs
    /\ a0ret = <<>>
    /\ reads = {}
    /\ result = [kind |-> "none", err |-> "", val |-> <<>>]
    /\ outcome = "running"
    /\ live0 = DOMAIN mem
    /\ InsertIdle
    /\ XIdle

-----------------------------------------------------------------------------
(* Executing a wrapper, one operation per step *)

Cur == prog[pc]
At(op) == pc >= 1 /\ pc <= Len(prog) /\ Cur.op = op

SeqRange(q) == {q[i] : i \in 1..Len(q)}

\* dropping the scope guards frees the regions they own
DropGuards(m) == [a \in DOMAIN m \ SeqRange(guards) |-> m[a]]

\* the value a test binds: "tm" is also the tm of the BTreeInfo it builds
Bind(h, field, v) ==
    IF field = "tm" THEN [h EXCEPT !.tm = v, !.info.tm = v]
    ELSE [h EXCEPT ![field] = v]

RECURSIVE BindAll(_, _, _)
BindAll(h, fields, vs) ==
    IF fields = <<>> THEN h
    ELSE BindAll(Bind(h, Head(fields), Head(vs)), Tail(fields), Tail(vs))

\* the wrapper returns Err(err) with memory m: its guards are dropped, and
\* the test, which applies ? to every call, returns the error
Fail(m, err) ==
    /\ result' = [kind |-> "Err", err |-> err, val |-> <<>>]
    /\ mem' = DropGuards(m)
    /\ guards' = <<>>
    /\ pc' = 0
    /\ outcome' = "Err"
    /\ UNCHANGED <<tname, test, host, saved, w, prog, loc, vals, created, live0>>

Step == pc' = pc + 1

\* the test calls its next wrapper
Begin ==
    /\ pc = 0
    /\ outcome = "running"
    /\ test # <<>>
    /\ w' = Head(test).call
    /\ prog' = ProgOf(Head(test).call, host)
    /\ pc' = 1
    /\ saved' = host
    /\ loc' = <<>>
    /\ vals' = <<>>
    /\ guards' = <<>>
    /\ created' = {}
    /\ a0ret' = <<>>
    /\ reads' = {}
    /\ result' = [kind |-> "none", err |-> "", val |-> <<>>]
    /\ UNCHANGED <<tname, test, host, mem, regs, outcome, live0>>
    /\ UNCHANGED <<ivars, xvars>>

DoEnsure ==
    /\ At("ensure")
    /\ IF Cur.ok
       THEN Step /\ UNCHANGED <<tname, test, host, saved, w, prog, loc, vals, guards,
                                created, mem, result, outcome, live0>>
       ELSE Fail(mem, "Ensure")
    /\ UNCHANGED <<regs, a0ret, reads>>
    /\ UNCHANGED <<ivars, xvars>>

\* mem.alloc(size): OutOfMemory when no unused region fits
DoAlloc ==
    /\ At("alloc")
    /\ IF Candidates(mem, Cur.size) = {}
       THEN Fail(mem, "OutOfMemory")
       ELSE LET b == AllocBase(mem, Cur.size)
            IN  /\ mem' = Alloc(mem, b, Zeros(Cur.size))
                /\ loc' = (Cur.buf :> b) @@ loc
                /\ created' = created \cup {b}
                /\ Step
                /\ UNCHANGED <<tname, test, host, saved, w, prog, vals, guards, result,
                               outcome, live0>>
    /\ UNCHANGED <<regs, a0ret, reads>>
    /\ UNCHANGED <<ivars, xvars>>

\* alloc_guest(mem, v, perms): a region of guest_len bytes, or of the packed
\* length when that is longer, holding v packed
DoAllocGuest ==
    /\ At("alloc_guest")
    /\ LET n == Max(Cur.glen, Len(Cur.bytes))
       IN  IF Candidates(mem, n) = {}
           THEN Fail(mem, "OutOfMemory")
           ELSE LET b == AllocBase(mem, n)
                IN  /\ mem' = Alloc(mem, b, [i \in 1..n |->
                               IF i <= Len(Cur.bytes) THEN Cur.bytes[i] ELSE 0])
                    /\ loc' = (Cur.buf :> b) @@ loc
                    /\ created' = created \cup {b}
                    /\ Step
                    /\ UNCHANGED <<tname, test, host, saved, w, prog, vals, guards,
                                   result, outcome, live0>>
    /\ UNCHANGED <<regs, a0ret, reads>>
    /\ UNCHANGED <<ivars, xvars>>

DoWrite ==
    /\ At("write")
    /\ LET a == loc[Cur.buf] + Cur.off
       IN  IF CanAccess(mem, a, Len(Cur.bytes))
           THEN /\ mem' = WriteBytes(mem, a, Cur.bytes)
                /\ Step
                /\ UNCHANGED <<tname, test, host, saved, w, prog, loc, vals, guards,
                               created, result, outcome, live0>>
           ELSE Fail(mem, "BadAccess")
    /\ UNCHANGED <<regs, a0ret, reads>>
    /\ UNCHANGED <<ivars, xvars>>

DoGuard ==
    /\ At("guard")
    /\ guards' = Append(guards, loc[Cur.buf])
    /\ Step
    /\ UNCHANGED <<tname, test, host, saved, w, prog, loc, vals, created, mem, regs,
                   a0ret, reads, result, outcome, live0>>
    /\ UNCHANGED <<ivars, xvars>>

DoSetReg ==
    /\ At("set_reg")
    /\ regs' = [regs EXCEPT ![Cur.reg] = Cur.v]
    /\ Step
    /\ UNCHANGED <<tname, test, host, saved, w, prog, loc, vals, guards, created, mem,
                   a0ret, reads, result, outcome, live0>>
    /\ UNCHANGED <<ivars, xvars>>

DoSetRegPtr ==
    /\ At("set_reg_ptr")
    /\ regs' = [regs EXCEPT ![Cur.reg] = loc[Cur.buf]]
    /\ Step
    /\ UNCHANGED <<tname, test, host, saved, w, prog, loc, vals, guards, created, mem,
                   a0ret, reads, result, outcome, live0>>
    /\ UNCHANGED <<ivars, xvars>>

\* fix.call(sym): run the guest until it returns or faults
DoCall ==
    /\ At("call")
    /\ \E o \in GuestCall(Cur.sym, regs, mem) :
          IF o.fault
          THEN Fail(o.mem, "Fault") /\ UNCHANGED <<regs, a0ret>>
          ELSE /\ mem' = o.mem
               /\ regs' = [regs EXCEPT !["A0"] = o.a0]
               /\ a0ret' = <<o.a0>>
               /\ Step
               /\ UNCHANGED <<tname, test, host, saved, w, prog, loc, vals, guards,
                              created, result, outcome, live0>>
    /\ UNCHANGED reads
    /\ UNCHANGED <<ivars, xvars>>

\* fix.call_with_errno(sym): as call, and a non-zero A0 is an error
call_with_errno(o) ==
    IF o.fault
    THEN Fail(o.mem, "Fault") /\ UNCHANGED <<regs, a0ret>>
    ELSE /\ regs' = [regs EXCEPT !["A0"] = o.a0]
         /\ a0ret' = <<o.a0>>
         /\ IF o.a0 # 0
            THEN Fail(o.mem, "GuestErrno")
            ELSE /\ mem' = o.mem
                 /\ Step
                 /\ UNCHANGED <<tname, test, host, saved, w, prog, loc, vals, guards,
                                created, result, outcome, live0>>

DoCallErrno ==
    /\ At("call_with_errno")
    /\ \E o \in GuestCall(Cur.sym, regs, mem) : call_with_errno(o)
    /\ UNCHANGED reads
    /\ UNCHANGED <<ivars, xvars>>

DoReadReg ==
    /\ At("read_reg")
    /\ vals' = (Cur.dst :> regs[Cur.reg]) @@ vals
    /\ Step
    /\ UNCHANGED <<tname, test, host, saved, w, prog, loc, guards, created, mem, regs,
                   a0ret, reads, result, outcome, live0>>
    /\ UNCHANGED <<ivars, xvars>>

DoCheckZero ==
    /\ At("check_zero")
    /\ IF vals[Cur.src] # 0
       THEN Fail(mem, "Failed")
       ELSE Step /\ UNCHANGED <<tname, test, host, saved, w, prog, loc, vals, guards,
                                created, mem, result, outcome, live0>>
    /\ UNCHANGED <<regs, a0ret, reads>>
    /\ UNCHANGED <<ivars, xvars>>

DoReadInto ==
    /\ At("read_into")
    /\ LET a == loc[Cur.buf] + Cur.off
       IN  IF CanAccess(mem, a, Cur.n)
           THEN /\ vals' = (Cur.dst :> FromLE(ReadBytes(mem, a, Cur.n))) @@ vals
                /\ reads' = reads \cup {Cur.buf}
                /\ Step
                /\ UNCHANGED <<tname, test, host, saved, w, prog, loc, guards, created,
                               mem, result, outcome, live0>>
           ELSE Fail(mem, "BadAccess") /\ UNCHANGED reads
    /\ UNCHANGED <<regs, a0ret>>
    /\ UNCHANGED <<ivars, xvars>>

\* read_guest::<T>(mem, ptr): read guest_len bytes and unpack them
read_guest(ty, bs) ==
    IF ty = "CopyCursor" THEN CopyCursor_unpack(bs) ELSE Value64_unpack(bs)

DoReadGuest ==
    /\ At("read_guest")
    /\ LET a == loc[Cur.buf]
           n == IF Cur.ty = "CopyCursor" THEN CopyCursor_guest_len ELSE Value64_guest_len
       IN  IF ~CanAccess(mem, a, n)
           THEN Fail(mem, "BadAccess") /\ UNCHANGED reads
           ELSE IF /\ Cur.ty = "CopyCursor"
                   /\ CopyCursor_count(ReadBytes(mem, a, n)) > MaxCursorEntries
           THEN Fail(mem, "Panic") /\ UNCHANGED reads
           ELSE /\ vals' = (Cur.dst :> read_guest(Cur.ty, ReadBytes(mem, a, n))) @@ vals
                /\ reads' = reads \cup {Cur.buf}
                /\ Step
                /\ UNCHANGED <<tname, test, host, saved, w, prog, loc, guards, created,
                               mem, result, outcome, live0>>
    /\ UNCHANGED <<regs, a0ret>>
    /\ UNCHANGED <<ivars, xvars>>

\* mem.free(ptr): BadFree unless ptr is the base of a live allocation
DoFree ==
    /\ At("free")
    /\ IF loc[Cur.buf] \in DOMAIN mem
       THEN /\ mem' = Free(mem, loc[Cur.buf])
            /\ Step
            /\ UNCHANGED <<tname, test, host, saved, w, prog, loc, vals, guards,
                           created, result, outcome, live0>>
       ELSE Fail(mem, "BadFree")
    /\ UNCHANGED <<regs, a0ret, reads>>
    /\ UNCHANGED <<ivars, xvars>>

DoStore ==
    /\ At("store")
    /\ host' = [host EXCEPT ![Cur.field] = vals[Cur.src]]
    /\ Step
    /\ UNCHANGED <<tname, test, saved, w, prog, loc, vals, guards, created, mem, regs,
                   a0ret, reads, result, outcome, live0>>
    /\ UNCHANGED <<ivars, xvars>>

\* the wrapper returns Ok(rets): its guards are dropped and the test binds
\* the values and goes on
DoOk ==
    /\ At("ok")
    /\ LET rv == [i \in 1..Len(Cur.rets) |-> vals[Cur.rets[i]]]
       IN  /\ result' = [kind |-> "Ok", err |-> "", val |-> rv]
           /\ host' = BindAll(host, Head(test).bind, rv)
    /\ mem' = DropGuards(mem)
    /\ guards' = <<>>
    /\ pc' = 0
    /\ test' = Tail(test)
    /\ outcome' = IF Tail(test) = <<>> THEN "Ok" ELSE "running"
    /\ UNCHANGED <<tname, saved, w, prog, loc, vals, created, regs, a0ret, reads, live0>>
    /\ UNCHANGED <<ivars, xvars>>

Next ==
    \/ Begin
    \/ DoEnsure
    \/ DoAlloc
    \/ DoAllocGuest
    \/ DoWrite
    \/ DoGuard
    \/ DoSetReg
    \/ DoSetRegPtr
    \/ DoCall
    \/ DoCallErrno
    \/ DoReadReg
    \/ DoCheckZero
    \/ DoReadInto
    \/ DoReadGuest
    \/ DoFree
    \/ DoStore
    \/ DoOk

Spec == Init /\ [][Next]_vars

-----------------------------------------------------------------------------
(* do_insert_test_: the insert scenarios of the B-tree tests *)

\* number of keys of the scenario
NrKeys == 150

\* greatest number of leaves the tree walk may find
MaxLeaves == 3

commit_interval == 100

pass_count == 2

\* test_insert_ascending: the keys in the order they are inserted
keys == [i \in 1..NrKeys |-> i - 1]

\* target_residency of test_insert_ascending and test_insert_random, of
\* test_insert_descending, and of test_insert_runs
Targets == {75, 49, 80}

key_to_value(k) == k + 12345

\* (BLOCK_SIZE - NodeHeader::disk_size()) / (8 + Value64::disk_size())
calc_max_entries == (4096 - 32) \div (8 + 8)

\* the percentage the walk computes from its two counters
calc_residency(nr_entries, nr_leaves) ==
    (nr_entries * 100) \div (calc_max_entries * nr_leaves)

\* the numbers of leaves that can hold n entries
LeafCounts(n) ==
    {l \in 1..MaxLeaves : l * calc_max_entries >= n}

\* the guest's insert: the key is bound to the value, a former binding is
\* overwritten
TreeInsert(t, k, v) ==
    [x \in DOMAIN t \cup {k} |-> IF x = k THEN v ELSE t[x]]

InitInsert ==
    /\ tname = "do_insert_test_"
    /\ test = <<>>
    /\ host = Host0
    /\ saved = Host0
    /\ w = ""
    /\ prog = <<>>
    /\ pc = 0
    /\ loc = <<>>
    /\ vals = <<>>
    /\ guards = <<>>
    /\ created = {}
    /\ mem = PreMem(0)
    /\ regs = NoRegs
    /\ a0ret = <<>>
    /\ reads = {}
    /\ result = [kind |-> "none", err |-> "", val |-> <<>>]
    /\ outcome = "running"
    /\ live0 = {}
    /\ ipc = "start"
    /\ target \in Targets
    /\ pass = 0
    /\ idx = 0
    /\ commit_counter = 0
    /\ tree = <<>>
    /\ since = 0
    /\ gaps = <<>>
    /\ residencies = <<>>
    /\ ret = "none"
    /\ XIdle

\* a step of do_insert_test_ returned an error, which `?` propagates
InsertErr ==
    /\ ret' = "Err"
    /\ ipc' = "done"

\* standard_globals(fix)?; BTreeTest::new(fix)?; commit_counter = commit_interval
BTreeTest_new ==
    /\ ipc = "start"
    /\ \/ /\ ipc' = "pass"
          /\ commit_counter' = commit_interval
          /\ UNCHANGED ret
       \/ InsertErr /\ UNCHANGED commit_counter
    /\ UNCHANGED <<target, pass, idx, tree, since, gaps, residencies>>
    /\ UNCHANGED <<wvars, xvars>>

\* for pass in 0..pass_count { bt.stats_start(); ...
stats_start ==
    /\ ipc = "pass"
    /\ pass < pass_count
    /\ idx' = 1
    /\ ipc' = IF NrKeys = 0 THEN "residency" ELSE "insert"
    /\ UNCHANGED <<target, pass, commit_counter, tree, since, gaps, residencies, ret>>
    /\ UNCHANGED <<wvars, xvars>>

\* bt.insert(*k)?
BTreeTest_insert ==
    /\ ipc = "insert"
    /\ \/ /\ tree' = TreeInsert(tree, keys[idx], key_to_value(keys[idx]))
          /\ since' = since + 1
          /\ ipc' = "commit"
          /\ UNCHANGED ret
       \/ InsertErr /\ UNCHANGED <<tree, since>>
    /\ UNCHANGED <<target, pass, idx, commit_counter, gaps, residencies>>
    /\ UNCHANGED <<wvars, xvars>>

\* if commit_counter == 0 { bt.commit()?; commit_counter = commit_interval; }
\* commit_counter -= 1; and on to the next key
periodic_commit ==
    /\ ipc = "commit"
    /\ IF commit_counter = 0
       THEN /\ gaps' = Append(gaps, since)
            /\ since' = 0
            /\ \/ /\ commit_counter' = commit_interval - 1
                  /\ idx' = idx + 1
                  /\ ipc' = IF idx < NrKeys THEN "insert" ELSE "residency"
                  /\ UNCHANGED ret
               \/ InsertErr /\ UNCHANGED <<commit_counter, idx>>
       ELSE /\ commit_counter' = commit_counter - 1
            /\ idx' = idx + 1
            /\ ipc' = IF idx < NrKeys THEN "insert" ELSE "residency"
            /\ UNCHANGED <<since, gaps, ret>>
    /\ UNCHANGED <<target, pass, tree, residencies>>
    /\ UNCHANGED <<wvars, xvars>>

\* let residency = bt.residency()?; if residency < target_residency { }
BTreeTest_residency ==
    /\ ipc = "residency"
    /\ \/ \E l \in LeafCounts(Cardinality(DOMAIN tree)) :
             /\ residencies' =
                    Append(residencies, calc_residency(Cardinality(DOMAIN tree), l))
             /\ ipc' = "report"
             /\ UNCHANGED ret
       \/ InsertErr /\ UNCHANGED residencies
    /\ UNCHANGED <<target, pass, idx, commit_counter, tree, since, gaps>>
    /\ UNCHANGED <<wvars, xvars>>

\* bt.stats_report(desc, keys.len())?, the end of a pass
stats_report ==
    /\ ipc = "report"
    /\ \/ /\ pass' = pass + 1
          /\ ipc' = "pass"
          /\ UNCHANGED ret
       \/ InsertErr /\ UNCHANGED pass
    /\ UNCHANGED <<target, idx, commit_counter, tree, since, gaps, residencies>>
    /\ UNCHANGED <<wvars, xvars>>

\* after the last pass: bt.commit()?; bt.stats_start()
final_commit ==
    /\ ipc = "pass"
    /\ pass >= pass_count
    /\ \/ /\ idx' = 1
          /\ ipc' = IF NrKeys = 0 THEN "lookup_report" ELSE "lookup"
          /\ UNCHANGED ret
       \/ InsertErr /\ UNCHANGED idx
    /\ UNCHANGED <<target, pass, commit_counter, tree, since, gaps, residencies>>
    /\ UNCHANGED <<wvars, xvars>>

\* bt.lookup(*k)?: dm_btree_lookup must succeed and give key_to_value(key)
BTreeTest_lookup ==
    /\ ipc = "lookup"
    /\ \/ /\ keys[idx] \in DOMAIN tree
          /\ tree[keys[idx]] = key_to_value(keys[idx])
          /\ idx' = idx + 1
          /\ ipc' = IF idx < NrKeys THEN "lookup" ELSE "lookup_report"
          /\ UNCHANGED ret
       \/ InsertErr /\ UNCHANGED idx
    /\ UNCHANGED <<target, pass, commit_counter, tree, since, gaps, residencies>>
    /\ UNCHANGED <<wvars, xvars>>

\* bt.stats_report("lookup", keys.len())?; bt.commit()?
lookup_report ==
    /\ ipc = "lookup_report"
    /\ \/ ipc' = "check" /\ UNCHANGED ret
       \/ InsertErr
    /\ UNCHANGED <<target, pass, idx, commit_counter, tree, since, gaps, residencies>>
    /\ UNCHANGED <<wvars, xvars>>

\* bt.check_keys_present(&keys)?; Ok(())
BTreeTest_check_keys_present ==
    /\ ipc = "check"
    /\ \/ /\ \A i \in 1..NrKeys :
                keys[i] \in DOMAIN tree /\ tree[keys[i]] = key_to_value(keys[i])
          /\ ret' = "Ok"
          /\ ipc' = "done"
       \/ InsertErr
    /\ UNCHANGED <<target, pass, idx, commit_counter, tree, since, gaps, residencies>>
    /\ UNCHANGED <<wvars, xvars>>

NextInsert ==
    \/ BTreeTest_new
    \/ stats_start
    \/ BTreeTest_insert
    \/ periodic_commit
    \/ BTreeTest_residency
    \/ stats_report
    \/ final_commit
    \/ BTreeTest_lookup
    \/ lookup_report
    \/ BTreeTest_check_keys_present

SpecInsert == InitInsert /\ [][NextInsert]_vars

-----------------------------------------------------------------------------
(* The helpers of the tests, applied to arguments drawn from small sets *)

\* the keys of the trees walked range over 0..MaxKey
MaxKey == 2

\* the wrappers and do_insert_test_ are not running
OthersIdle ==
    /\ tname = "helper"
    /\ test = <<>>
    /\ host = Host0
    /\ saved = Host0
    /\ w = ""
    /\ prog = <<>>
    /\ pc = 0
    /\ loc = <<>>
    /\ vals = <<>>
    /\ guards = <<>>
    /\ created = {}
    /\ mem = PreMem(0)
    /\ regs = NoRegs
    /\ a0ret = <<>>
    /\ reads = {}
    /\ result = [kind |-> "none", err |-> "", val |-> <<>>]
    /\ outcome = "running"
    /\ live0 = {}
    /\ InsertIdle

\* a variant of visit that accepts any value
EntryVisitor_visit_unchecked(seen, ks, vs) ==
    [ok |-> TRUE, seen |-> seen \cup {ks[i] : i \in 1..Len(ks)}]

RECURSIVE EntryVisitor_visit(_, _, _)
\* EntryVisitor::visit(keys, values): the keys are added to seen one by one,
\* up to the first key whose value is not key_to_value(key), which is an error
EntryVisitor_visit(seen, ks, vs) ==
    IF ks = <<>>
    THEN [ok |-> TRUE, seen |-> seen]
    ELSE IF Head(vs) # key_to_value(Head(ks))
         THEN [ok |-> FALSE, seen |-> seen]
         ELSE EntryVisitor_visit(seen \cup {Head(ks)}, Tail(ks), Tail(vs))

RECURSIVE walk(_, _)
\* BTreeWalker::walk: the visitor is given the leaves in key order, and the
\* walk fails as soon as the visitor does
walk(seen, nodes) ==
    IF nodes = <<>>
    THEN [ok |-> TRUE, seen |-> seen]
    ELSE LET r == EntryVisitor_visit(seen, Head(nodes).keys, Head(nodes).values)
         IN  IF r.ok THEN walk(r.seen, Tail(nodes)) ELSE r

\* check_keys_present(root, keys), t being the tree under root: t.readable
\* tells whether the walker can read its blocks
check_keys_present(t, ks) ==
    IF ~t.readable
    THEN "Err"
    ELSE LET r == walk({}, t.nodes)
         IN  IF ~r.ok
             THEN "Err"
             ELSE IF \E i \in 1..Len(ks) : ks[i] \notin r.seen THEN "Err" ELSE "Ok"

\* strictly ascending key sequences
AscKeys ==
    {q \in UNION {[1..n -> 0..MaxKey] : n \in 0..(MaxKey + 1)} :
        \A i \in 1..Len(q) : \A j \in 1..Len(q) : i < j => q[i] < q[j]}

\* for the keys ks, the right value or the value next to it
ValueSeqs(ks) ==
    {[i \in 1..Len(ks) |-> key_to_value(ks[i]) + b[i]] : b \in [1..Len(ks) -> {0, 1}]}

\* the entries ks, vs as two leaves, the first holding cut entries
Leaves(ks, vs, cut) ==
    <<[keys |-> SubSeq(ks, 1, cut), values |-> SubSeq(vs, 1, cut)],
      [keys |-> SubSeq(ks, cut + 1, Len(ks)), values |-> SubSeq(vs, cut + 1, Len(vs))]>>

\* the addresses of the moves range over 0..MaxAddr
MaxAddr == 3

RECURSIVE check_move(_, _, _)
\* the inner loop of check_moves from offset i on: src + i must not be in
\* writes, then dest + i is added to writes
check_move(writes, m, i) ==
    IF i >= m.len
    THEN [ok |-> TRUE, writes |-> writes]
    ELSE IF (m.src + i) \in writes
         THEN [ok |-> FALSE, writes |-> writes]
         ELSE check_move(writes \cup {m.dest + i}, m, i + 1)

RECURSIVE check_moves_from(_, _)
\* the outer loop of check_moves
check_moves_from(writes, moves) ==
    IF moves = <<>>
    THEN "Ok"
    ELSE LET r == check_move(writes, Head(moves), 0)
         IN  IF r.ok THEN check_moves_from(r.writes, Tail(moves)) ELSE "Err"

\* check_moves(moves)
check_moves(moves) == check_moves_from({}, moves)

\* Move { dest, src, len }
Moves == [dest : 0..MaxAddr, src : 0..MaxAddr, len : 0..2]

MoveSeqs == UNION {[1..n -> Moves] : n \in 0..2}

\* the key vectors looked for
KeyLists == UNION {[1..n -> 0..MaxKey] : n \in 0..2}

\* the types of the wrappers that implement Guest
GuestTypes == {"BTreeValueType", "BTreeInfo", "CursorEntry", "CopyCursor"}

\* T::guest_len()
Guest_guest_len(ty) ==
    CASE ty = "BTreeValueType" -> BTreeValueType_guest_len
      [] ty = "BTreeInfo" -> BTreeInfo_guest_len
      [] ty = "CursorEntry" -> CursorEntry_guest_len
      [] OTHER -> CopyCursor_guest_len

\* v.pack(w)
Guest_pack(ty, v) ==
    CASE ty = "BTreeValueType" -> BTreeValueType_pack(v)
      [] ty = "BTreeInfo" -> BTreeInfo_pack(v)
      [] ty = "CursorEntry" -> CursorEntry_pack(v)
      [] OTHER -> CopyCursor_pack(v)

\* the bytes T::unpack reads from its reader: a CopyCursor reads as many
\* entries as the count says, the others have a fixed layout
Guest_unpack_reads(ty, bs) ==
    CASE ty = "BTreeValueType" -> 8 + 4 + 4 + 8 + 8 + 8
      [] ty = "BTreeInfo" -> 8 + 4 + 4 + (8 + 4 + 4 + 8 + 8 + 8)
      [] ty = "CursorEntry" -> 8 + 4 + 4
      [] OTHER -> IF Len(bs) < 4 THEN 4 + 4
                  ELSE 4 + 4 + CursorEntry_guest_len * CopyCursor_count(bs)

\* the assertion T::unpack makes on what it read
Guest_unpack_asserts(ty, bs) ==
    CASE ty = "BTreeValueType" -> BTreeValueType_size(bs) = Value64_guest_len
      [] ty = "BTreeInfo" ->
           BTreeValueType_size(Slice(bs, 16, Len(bs) - 16)) = Value64_guest_len
      [] ty = "CursorEntry" -> TRUE
      [] OTHER -> CopyCursor_count(bs) <= MaxCursorEntries

\* T::unpack(r) with r reading bs: an io error when bs ends early, a panic
\* when the assertion fails, the value otherwise
Guest_unpack(ty, bs) ==
    IF ty = "CopyCursor" /\ Len(bs) >= 4 /\ CopyCursor_count(bs) > MaxCursorEntries
    THEN [st |-> "Panic", v |-> <<>>]
    ELSE IF Len(bs) < Guest_unpack_reads(ty, bs)
    THEN [st |-> "Err", v |-> <<>>]
    ELSE IF ~Guest_unpack_asserts(ty, bs)
    THEN [st |-> "Panic", v |-> <<>>]
    ELSE [st |-> "Ok",
          v  |-> CASE ty = "BTreeValueType" -> BTreeValueType_unpack(bs)
                   [] ty = "BTreeInfo" -> BTreeInfo_unpack(bs)
                   [] ty = "CursorEntry" -> CursorEntry_unpack(bs)
                   [] OTHER -> CopyCursor_unpack(bs)]

\* addresses and 32-bit fields: one byte, two bytes, zero
AddrVals == {0, 258}
U32Vals == {0, 1, 300}

ValueTypes == [context : AddrVals, inc_fn : AddrVals, dec_fn : AddrVals, eq_fn : AddrVals]

PackedEntries == [node : AddrVals, begin : {0, 300}, end : {1}]

\* the values of type ty that are packed
GuestValues(ty) ==
    CASE ty = "BTreeValueType" -> ValueTypes
      [] ty = "BTreeInfo" ->
           [tm : AddrVals, levels : {1, 300},
            vtype : {vt \in ValueTypes : vt.inc_fn = vt.dec_fn}]
      [] ty = "CursorEntry" -> [node : AddrVals, begin : U32Vals, end : U32Vals]
      [] OTHER ->
           {[index |-> i, entries |-> es] :
               i \in {0, 300},
               es \in UNION {[1..n -> PackedEntries] : n \in 0..MaxCursorEntries}}

InitChecks ==
    /\ OthersIdle
    /\ BlockDevIdle
    /\ AllocIdle
    /\ VmIdle
    /\ HarnessIdle
    /\ RedistIdle
    /\ out = "none"
    /\ packed = <<>>
    /\ unpacked = NotUnpacked
    /\ \/ \E ks \in AscKeys :
            \E vs \in ValueSeqs(ks), cut \in 0..Len(ks), r \in BOOLEAN, q \in KeyLists :
               /\ fn = "check_keys_present"
               /\ arg = [tree |-> [readable |-> r, nodes |-> Leaves(ks, vs, cut)],
                         keys |-> q]
       \/ \E ms \in MoveSeqs :
            /\ fn = "check_moves"
            /\ arg = [moves |-> ms]
       \/ \E ty \in GuestTypes :
            \E v \in GuestValues(ty) :
               /\ fn = "pack"
               /\ arg = [ty |-> ty, v |-> v]

call_check_keys_present ==
    /\ fn = "check_keys_present"
    /\ out = "none"
    /\ out' = check_keys_present(arg.tree, arg.keys)
    /\ UNCHANGED <<fn, arg, packed, unpacked>>
    /\ UNCHANGED others_p

call_check_moves ==
    /\ fn = "check_moves"
    /\ out = "none"
    /\ out' = check_moves(arg.moves)
    /\ UNCHANGED <<fn, arg, packed, unpacked>>
    /\ UNCHANGED others_p

\* v.pack(&mut w) into an empty buffer
call_pack ==
    /\ fn = "pack"
    /\ out = "none"
    /\ packed' = Guest_pack(arg.ty, arg.v)
    /\ out' = "packed"
    /\ UNCHANGED <<fn, arg, unpacked>>
    /\ UNCHANGED others_p

\* T::unpack(&mut r) over the bytes that were packed
call_unpack ==
    /\ fn = "pack"
    /\ out = "packed"
    /\ unpacked' = Guest_unpack(arg.ty, packed)
    /\ out' = "unpacked"
    /\ UNCHANGED <<fn, arg, packed>>
    /\ UNCHANGED others_p

NextChecks ==
    \/ call_check_keys_present
    \/ call_check_moves
    \/ call_pack
    \/ call_unpack

SpecChecks == InitChecks /\ [][NextChecks]_vars

-----------------------------------------------------------------------------
(* The simulated block device: locks on blocks *)

\* lock handles that may be held at a time
MaxHeld == 3

Holders(hs, b) == {h \in hs : h.b = b}

Writers(hs, b) == {h \in hs : h.b = b /\ h.kind = "write"}

Readers(hs, b) == {h \in hs : h.b = b /\ h.kind = "read"}

\* a variant of CanLock that lets a writer in beside readers
CanLock_among_readers(hs, b, kind) == Writers(hs, b) = {}

\* may a lock of this kind on block b be granted: a reader beside readers
\* only, a writer alone
CanLock(hs, b, kind) ==
    IF kind = "read" THEN Writers(hs, b) = {} ELSE Holders(hs, b) = {}

\* the handle a granted lock returns
NewHandle(hs, b, kind) ==
    [id   |-> CHOOSE i \in 1..MaxHeld : /\ i \notin {h.id : h \in hs}
                                        /\ \A j \in 1..(i - 1) : j \in {h.id : h \in hs},
     b    |-> b,
     kind |-> kind]

Handles == [id : 1..MaxHeld, b : Blocks, kind : {"read", "write"}]

\* a lock request on block b
bdev_lock(op, kind, b) ==
    /\ Cardinality(held) < MaxHeld
    /\ IF CanLock(held, b, kind)
       THEN /\ held' = held \cup {NewHandle(held, b, kind)}
            /\ lret' = [op |-> op, b |-> b, ok |-> TRUE]
       ELSE /\ held' = held
            /\ lret' = [op |-> op, b |-> b, ok |-> FALSE]

bdev_read_lock ==
    /\ \E b \in Blocks : bdev_lock("read_lock", "read", b)
    /\ UNCHANGED bdata
    /\ UNCHANGED others_b

bdev_write_lock ==
    /\ \E b \in Blocks : bdev_lock("write_lock", "write", b)
    /\ UNCHANGED bdata
    /\ UNCHANGED others_b

\* write-lock-zero: a granted lock leaves the block all zeros
bdev_write_lock_zero ==
    /\ \E b \in Blocks :
          /\ bdev_lock("write_lock_zero", "write", b)
          /\ bdata' = IF CanLock(held, b, "write") THEN [bdata EXCEPT ![b] = 0] ELSE bdata
    /\ UNCHANGED others_b

\* unlock of a handle: it is released when it is held, refused otherwise
bdev_unlock ==
    /\ \E h \in Handles :
          IF h \in held
          THEN /\ held' = held \ {h}
               /\ lret' = [op |-> "unlock", b |-> h.b, ok |-> TRUE]
          ELSE /\ held' = held
               /\ lret' = [op |-> "unlock", b |-> h.b, ok |-> FALSE]
    /\ UNCHANGED bdata
    /\ UNCHANGED others_b

\* the guest writes the block through a write lock it holds
bdev_write_data ==
    /\ \E h \in held, v \in {1, 2} :
          /\ h.kind = "write"
          /\ bdata' = [bdata EXCEPT ![h.b] = v]
    /\ UNCHANGED <<held, lret>>
    /\ UNCHANGED others_b

InitBlockDev ==
    /\ OthersIdle
    /\ PureIdle
    /\ BlockDevIdle
    /\ AllocIdle
    /\ VmIdle
    /\ HarnessIdle
    /\ RedistIdle

NextBlockDev ==
    \/ bdev_read_lock
    \/ bdev_write_lock
    \/ bdev_write_lock_zero
    \/ bdev_unlock
    \/ bdev_write_data

SpecBlockDev == InitBlockDev /\ [][NextBlockDev]_vars

-----------------------------------------------------------------------------
(* The allocator of guest memory under any sequence of alloc and free *)

\* allocations that may be live at a time
MaxLive == 3

\* the lengths asked for, one of them more than half of the heap
AllocLens == {0, 2, HeapSize \div 2 + 1}

\* the addresses free is tried on: the bottom of the heap and every address
\* of a live allocation
FreeAddrs(m) ==
    (HeapBase - 1)..(HeapBase + 3)
        \cup UNION {a..(a + Len(m[a])) : a \in {b \in DOMAIN m : Len(m[b]) <= 3}}
        \cup DOMAIN m

\* a variant of free that releases the allocation the address lies in
free_containing(m, addr) ==
    IF \E b \in DOMAIN m : b <= addr /\ addr < b + Extent(Len(m[b]))
    THEN [ok |-> TRUE, err |-> "",
          mem |-> Free(m, CHOOSE b \in DOMAIN m : b <= addr /\ addr < b + Extent(Len(m[b])))]
    ELSE [ok |-> FALSE, err |-> "BadFree", mem |-> m]

\* free(addr): BadFree unless addr is the base of a live allocation
free(m, addr) ==
    IF addr \in DOMAIN m
    THEN [ok |-> TRUE, err |-> "", mem |-> Free(m, addr)]
    ELSE [ok |-> FALSE, err |-> "BadFree", mem |-> m]

\* alloc(len): OutOfMemory when no unused region fits
alloc(m, n) ==
    IF Candidates(m, n) = {}
    THEN [ok |-> FALSE, err |-> "OutOfMemory", mem |-> m, addr |-> 0]
    ELSE [ok |-> TRUE, err |-> "", mem |-> Alloc(m, AllocBase(m, n), Zeros(n)),
          addr |-> AllocBase(m, n)]

mem_alloc ==
    /\ tname = "memory"
    /\ Cardinality(DOMAIN mem) < MaxLive
    /\ \E n \in AllocLens :
          LET r == alloc(mem, n)
          IN  /\ mem' = r.mem
              /\ mop' = [op |-> "alloc", arg |-> n, ok |-> r.ok, err |-> r.err,
                         addr |-> r.addr]
    /\ mprev' = mem
    /\ UNCHANGED others_a

mem_free ==
    /\ tname = "memory"
    /\ \E addr \in FreeAddrs(mem) :
          LET r == free(mem, addr)
          IN  /\ mem' = r.mem
              /\ mop' = [op |-> "free", arg |-> addr, ok |-> r.ok, err |-> r.err,
                         addr |-> addr]
    /\ mprev' = mem
    /\ UNCHANGED others_a

InitMem ==
    /\ tname = "memory"
    /\ test = <<>>
    /\ host = Host0
    /\ saved = Host0
    /\ w = ""
    /\ prog = <<>>
    /\ pc = 0
    /\ loc = <<>>
    /\ vals = <<>>
    /\ guards = <<>>
    /\ created = {}
    /\ mem = PreMem(0)
    /\ regs = NoRegs
    /\ a0ret = <<>>
    /\ reads = {}
    /\ result = [kind |-> "none", err |-> "", val |-> <<>>]
    /\ outcome = "running"
    /\ live0 = {}
    /\ InsertIdle
    /\ XIdle

NextMem ==
    \/ mem_alloc
    \/ mem_free

SpecMem == InitMem /\ [][NextMem]_vars

-----------------------------------------------------------------------------
(* The virtual machine and the fixture's call, with stubs that call back *)

\* the instruction counter is followed up to MaxInstrs
MaxInstrs == 8

\* calls that may be in progress at a time, nested ones included
MaxDepth == 2

\* the sentinel return address
Sentinel == 0

Li(rd, imm) == [k |-> "li", rd |-> rd, imm |-> imm, target |-> 0]
J(dest) == [k |-> "j", rd |-> "A0", imm |-> 0, target |-> dest]
Ret == [k |-> "ret", rd |-> "A0", imm |-> 0, target |-> 0]
Bad == [k |-> "bad", rd |-> "A0", imm |-> 0, target |-> 0]

\* the loaded image: the decoded instruction at each code address
Code ==
    (1 :> Li("A2", 2)) @@ (2 :> Li("SP", 3)) @@ (3 :> Li("A0", 0)) @@ (4 :> Ret)
        @@ (5 :> Li("SP", 1)) @@ (6 :> J(20))
        @@ (7 :> Li("A2", 1)) @@ (8 :> Li("RA", 13)) @@ (9 :> J(21))
        @@ (10 :> Li("A1", 1)) @@ (11 :> Bad)
        @@ (12 :> J(22))
        @@ (13 :> J(Sentinel))
        @@ (14 :> J(30))

\* the symbol table: a leaf function, a function that ends in a stub, one that
\* calls a stub and goes on at address 13, one with an undecodable word, one
\* that ends in a failing stub and one that jumps out of the image
Symbols ==
    [leaf |-> 1, via_stub |-> 5, via_nested |-> 7, broken |-> 10, via_error |-> 12,
     stray |-> 14]

\* the stub registry: what the host function at each address does
Stubs == (20 :> "simple") @@ (21 :> "nested") @@ (22 :> "error")

\* what a step did
Stepped(st, p, rg, retired, fetch) ==
    [st |-> st, pc |-> p, regs |-> rg, retired |-> retired, fetch |-> fetch]

\* a variant of step that fetches before it looks for the sentinel
step_fetch_first(p, rg) ==
    IF p \in DOMAIN Stubs
    THEN Stepped("Breakpoint", p, rg, 0, {})
    ELSE IF p \notin DOMAIN Code
         THEN Stepped("Faulted", p, rg, 0, {p})
         ELSE LET i == Code[p]
              IN  CASE i.k = "li"  -> Stepped("Running", p + 1, [rg EXCEPT ![i.rd] = i.imm],
                                              1, {p})
                    [] i.k = "j"   -> Stepped("Running", i.target, rg, 1, {p})
                    [] i.k = "ret" -> Stepped("Running", rg["RA"], rg, 1, {p})
                    [] OTHER       -> Stepped("Faulted", p, rg, 0, {p})

\* step(): the sentinel ends the call without a fetch, a registered stub is a
\* breakpoint, anything else is fetched, decoded and executed; a fetch outside
\* the image and an undecodable word are faults and retire nothing
step(p, rg) ==
    IF p = Sentinel
    THEN Stepped("Returned", p, rg, 0, {})
    ELSE IF p \in DOMAIN Stubs
         THEN Stepped("Breakpoint", p, rg, 0, {})
         ELSE IF p \notin DOMAIN Code
              THEN Stepped("Faulted", p, rg, 0, {p})
              ELSE LET i == Code[p]
                   IN  CASE i.k = "li"  -> Stepped("Running", p + 1,
                                                   [rg EXCEPT ![i.rd] = i.imm], 1, {p})
                         [] i.k = "j"   -> Stepped("Running", i.target, rg, 1, {p})
                         [] i.k = "ret" -> Stepped("Running", rg["RA"], rg, 1, {p})
                         [] OTHER       -> Stepped("Faulted", p, rg, 0, {p})

\* what call keeps of the caller while the callee runs
Frame(kind, rg, p, n) == [kind |-> kind, regs |-> rg, pc |-> p, instrs |-> n]

\* a variant of Restored that brings back the return address only
Restored_ra_only(fr, rg) == [rg EXCEPT !["RA"] = fr.regs["RA"]]

\* the registers after a call: A0 and A1 carry the results, the others are
\* the caller's again
Restored(fr, rg) ==
    [r \in VRegs |-> IF r \in {"A0", "A1"} THEN rg[r] ELSE fr.regs[r]]

\* a variant of InstrsAfterExit that brings back the counter with the registers
InstrsAfterExit_restored(fr, n) == fr.instrs

\* the instruction counter after a call: it is not part of what call restores
InstrsAfterExit(fr, n) == n

Terminal == {"Returned", "Faulted"}

\* fixture.call(sym) made by the test
vm_call ==
    /\ tname = "vm"
    /\ frames = <<>>
    /\ vst \in {"Idle"} \cup Terminal
    /\ instrs < MaxInstrs
    /\ \E sym \in DOMAIN Symbols, a \in {0, 1} :
          /\ frames' = <<Frame("test", [vregs EXCEPT !["A0"] = a], vpc, instrs)>>
          /\ vregs' = [vregs EXCEPT !["A0"] = a, !["RA"] = Sentinel]
          /\ vpc' = Symbols[sym]
    /\ vst' = "Running"
    /\ sphase' = "none"
    /\ UNCHANGED <<instrs, outer, left, baseline, dispatched, fetched>>
    /\ UNCHANGED others_v

\* one turn of the step-loop
vm_step ==
    /\ vst = "Running"
    /\ instrs < MaxInstrs
    /\ LET r == step(vpc, vregs)
       IN  /\ vst' = r.st
           /\ vpc' = r.pc
           /\ vregs' = r.regs
           /\ instrs' = instrs + r.retired
           /\ fetched' = fetched \cup r.fetch
    /\ UNCHANGED <<frames, sphase, outer, left, baseline, dispatched>>
    /\ UNCHANGED others_v

\* the dispatcher runs the stub registered at the breakpoint: it sets A0 and
\* jumps to the return address, or signals an error, or calls back into the
\* guest
stub_dispatch ==
    /\ vst = "Breakpoint"
    /\ sphase = "none"
    /\ dispatched' = dispatched + 1
    /\ CASE Stubs[vpc] = "error" ->
              /\ vst' = "Faulted"
              /\ UNCHANGED <<vpc, vregs, frames>>
         [] Stubs[vpc] = "nested" /\ Len(frames) < MaxDepth ->
              \E sym \in DOMAIN Symbols :
                 /\ frames' = Append(frames, Frame("stub", vregs, vpc, instrs))
                 /\ vregs' = [vregs EXCEPT !["RA"] = Sentinel]
                 /\ vpc' = Symbols[sym]
                 /\ vst' = "Running"
         [] OTHER ->
              \E v \in {0, 1} :
                 /\ vregs' = [vregs EXCEPT !["A0"] = v]
                 /\ vpc' = vregs["RA"]
                 /\ vst' = "Running"
                 /\ UNCHANGED frames
    /\ UNCHANGED <<instrs, sphase, outer, left, baseline, fetched>>
    /\ UNCHANGED others_v

\* the call in progress is over: the caller's state is restored; a call made
\* by a stub hands control back to the stub, or passes its fault on
call_exit ==
    /\ vst \in Terminal
    /\ frames # <<>>
    /\ LET fr == frames[Len(frames)]
       IN  /\ frames' = SubSeq(frames, 1, Len(frames) - 1)
           /\ vregs' = Restored(fr, vregs)
           /\ instrs' = InstrsAfterExit(fr, instrs)
           /\ outer' = fr.regs
           /\ left' = vregs
           /\ IF fr.kind = "test"
              THEN UNCHANGED <<vst, vpc, sphase>>
              ELSE IF vst = "Returned"
                   THEN vst' = "Breakpoint" /\ vpc' = fr.pc /\ sphase' = "after_nested"
                   ELSE UNCHANGED <<vst, vpc, sphase>>
    /\ UNCHANGED <<baseline, dispatched, fetched>>
    /\ UNCHANGED others_v

\* the stub whose nested call returned sets A0 and jumps to the return address
stub_finish ==
    /\ vst = "Breakpoint"
    /\ sphase = "after_nested"
    /\ \E v \in {0, 1} : vregs' = [vregs EXCEPT !["A0"] = v]
    /\ vpc' = vregs["RA"]
    /\ vst' = "Running"
    /\ sphase' = "none"
    /\ UNCHANGED <<instrs, frames, outer, left, baseline, dispatched, fetched>>
    /\ UNCHANGED others_v

\* Stats::collect_stats: the test takes a baseline between two calls
collect_stats ==
    /\ tname = "vm"
    /\ frames = <<>>
    /\ baseline # instrs
    /\ baseline' = instrs
    /\ UNCHANGED <<vst, vpc, vregs, instrs, frames, sphase, outer, left, dispatched,
                   fetched>>
    /\ UNCHANGED others_v

InitVm ==
    /\ tname = "vm"
    /\ test = <<>>
    /\ host = Host0
    /\ saved = Host0
    /\ w = ""
    /\ prog = <<>>
    /\ pc = 0
    /\ loc = <<>>
    /\ vals = <<>>
    /\ guards = <<>>
    /\ created = {}
    /\ mem = PreMem(0)
    /\ regs = NoRegs
    /\ a0ret = <<>>
    /\ reads = {}
    /\ result = [kind |-> "none", err |-> "", val |-> <<>>]
    /\ outcome = "running"
    /\ live0 = {}
    /\ InsertIdle
    /\ XIdle

NextVm ==
    \/ vm_call
    \/ vm_step
    \/ stub_dispatch
    \/ call_exit
    \/ stub_finish
    \/ collect_stats

SpecVm == InitVm /\ [][NextVm]_vars

-----------------------------------------------------------------------------
(* BTreeTest: the superblock lock from new to drop *)

\* inserts, lookups and commits a test makes on one BTreeTest
MaxOps == 3

\* dm_bm_write_lock_zero(fix, bm, 0, Addr(0)): Err when lock_ cannot allocate
\* its result buffer, the call faults or the guest returns an errno; the
\* handle of a write lock on block 0 when the block device grants it
lock_superblock(hs) ==
    {[ok |-> FALSE, h |-> NoHandle, held |-> hs]}
        \cup IF CanLock(hs, 0, "write")
             THEN {[ok   |-> TRUE,
                    h    |-> NewHandle(hs, 0, "write"),
                    held |-> hs \cup {NewHandle(hs, 0, "write")}]}
             ELSE {}

\* dm_tm_commit(fix, tm, sb) in the guest: it returns zero or an errno, and
\* has unlocked the superblock it was handed or has not
tm_commit(hs, h) ==
    {[ok |-> ok, released |-> r, held |-> IF r THEN hs \ {h} ELSE hs] :
        ok \in BOOLEAN, r \in BOOLEAN}

\* an unlock request on handle h, made by who
Unlock(h, who) == [h |-> h, was_held |-> h \in held, by |-> who]

\* the operation returned Err: the test returns it and its BTreeTest is dropped
Failed(op) ==
    /\ last' = [op |-> op, ok |-> FALSE]
    /\ bt' = "dropping"
    /\ dstep' = 1

Succeeded(op) ==
    /\ last' = [op |-> op, ok |-> TRUE]
    /\ bt' = "live"
    /\ dstep' = 0

\* BTreeTest::new: an error of dm_bm_create, dm_tm_create or the lock, or of
\* dm_btree_empty after the lock was taken, returns before a BTreeTest exists
bt_new ==
    /\ bt = "none"
    /\ \/ /\ bt' = "new_failed"
          /\ last' = [op |-> "new", ok |-> FALSE]
          /\ UNCHANGED <<sb, held>>
       \/ \E o \in lock_superblock(held) :
             /\ o.ok
             /\ held' = o.held
             /\ \/ /\ bt' = "new_failed"
                   /\ last' = [op |-> "new", ok |-> FALSE]
                   /\ UNCHANGED sb
                \/ /\ bt' = "live"
                   /\ last' = [op |-> "new", ok |-> TRUE]
                   /\ sb' = o.h
    /\ UNCHANGED <<dstep, events, unlocks, nops>>
    /\ UNCHANGED <<bdata, lret>>
    /\ UNCHANGED others_t

\* BTreeTest::insert
bt_insert ==
    /\ bt = "live"
    /\ nops < MaxOps
    /\ nops' = nops + 1
    /\ Succeeded("insert") \/ Failed("insert")
    /\ UNCHANGED <<sb, events, unlocks>>
    /\ UNCHANGED bvars
    /\ UNCHANGED others_t

\* BTreeTest::lookup
bt_lookup ==
    /\ bt = "live"
    /\ nops < MaxOps
    /\ nops' = nops + 1
    /\ Succeeded("lookup") \/ Failed("lookup")
    /\ UNCHANGED <<sb, events, unlocks>>
    /\ UNCHANGED bvars
    /\ UNCHANGED others_t

\* a variant of commit that keeps the handle it gave to dm_tm_commit
bt_commit_no_relock ==
    /\ bt = "live"
    /\ nops < MaxOps
    /\ nops' = nops + 1
    /\ \/ Failed("commit") /\ UNCHANGED <<sb, held, unlocks>>
       \/ \E c \in tm_commit(held, sb) :
             /\ unlocks' = IF c.released
                           THEN Append(unlocks, Unlock(sb, "dm_tm_commit"))
                           ELSE unlocks
             /\ held' = c.held
             /\ UNCHANGED sb
             /\ IF c.ok THEN Succeeded("commit") ELSE Failed("commit")
    /\ UNCHANGED events
    /\ UNCHANGED <<bdata, lret>>
    /\ UNCHANGED others_t

\* BTreeTest::commit: dm_tm_pre_commit, dm_tm_commit with the held handle,
\* then a new write-lock-zero of block 0 stored in sb
bt_commit ==
    /\ bt = "live"
    /\ nops < MaxOps
    /\ nops' = nops + 1
    /\ \/ Failed("commit") /\ UNCHANGED <<sb, held, unlocks>>
       \/ \E c \in tm_commit(held, sb) :
             /\ unlocks' = IF c.released
                           THEN Append(unlocks, Unlock(sb, "dm_tm_commit"))
                           ELSE unlocks
             /\ IF ~c.ok
                THEN /\ held' = c.held
                     /\ UNCHANGED sb
                     /\ Failed("commit")
                ELSE \E o \in lock_superblock(c.held) :
                        /\ held' = o.held
                        /\ IF o.ok
                           THEN sb' = o.h /\ Succeeded("commit")
                           ELSE UNCHANGED sb /\ Failed("commit")
    /\ UNCHANGED events
    /\ UNCHANGED <<bdata, lret>>
    /\ UNCHANGED others_t

\* the test is over and its BTreeTest goes out of scope
test_end ==
    /\ bt = "live"
    /\ bt' = "dropping"
    /\ dstep' = 1
    /\ UNCHANGED <<sb, events, unlocks, nops, last>>
    /\ UNCHANGED bvars
    /\ UNCHANGED others_t

\* a variant of DropOrder that destroys the block manager first
DropOrder_bm_first == <<"dm_bm_destroy", "dm_tm_destroy", "dm_bm_unlock">>

\* the calls of Drop for BTreeTest, in the order it makes them
DropOrder == <<"dm_bm_unlock", "dm_tm_destroy", "dm_bm_destroy">>

\* Drop for BTreeTest makes its next call: dm_bm_unlock(self.sb) unlocks the
\* handle when it is held; an Err of any call makes expect panic
bt_drop ==
    /\ bt = "dropping"
    /\ dstep \in 1..Len(DropOrder)
    /\ LET f == DropOrder[dstep]
       IN  /\ unlocks' = IF f = "dm_bm_unlock" THEN Append(unlocks, Unlock(sb, "drop"))
                         ELSE unlocks
           /\ \/ /\ events' = Append(events, f)
                 /\ held' = IF f = "dm_bm_unlock" THEN held \ {sb} ELSE held
                 /\ dstep' = dstep + 1
                 /\ bt' = IF dstep = Len(DropOrder) THEN "dropped" ELSE "dropping"
              \/ /\ bt' = "panicked"
                 /\ UNCHANGED <<events, held, dstep>>
    /\ UNCHANGED <<sb, nops, last>>
    /\ UNCHANGED <<bdata, lret>>
    /\ UNCHANGED others_t

InitHarness ==
    /\ OthersIdle
    /\ PureIdle
    /\ BlockDevIdle
    /\ AllocIdle
    /\ VmIdle
    /\ HarnessIdle
    /\ RedistIdle

NextHarness ==
    \/ bt_new
    \/ bt_insert
    \/ bt_lookup
    \/ bt_commit
    \/ test_end
    \/ bt_drop

SpecHarness == InitHarness /\ [][NextHarness]_vars

-----------------------------------------------------------------------------
(* do_redistribute_test: the memmove stub that records *)

\* memmove calls the guest makes in one redistribute_entries
MaxMoves == 2

\* the addresses of the node bytes a move may touch
NodeAddrs == 0..(MaxAddr + 2)

\* the node bytes before the test, each address with a byte of its own
Nodes0 == [a \in NodeAddrs |-> a + 1]

\* a variant of memmove that also copies, as the built-in memmove stub does
memmove_copying(rg, tr, m) ==
    [trace |-> Append(tr, [dest |-> rg["A0"], src |-> rg["A1"], len |-> rg["A2"]]),
     a0    |-> 0,
     mem   |-> [a \in DOMAIN m |->
                  IF a >= rg["A0"] /\ a < rg["A0"] + rg["A2"]
                  THEN m[rg["A1"] + (a - rg["A0"])] ELSE m[a]]]

\* the closure memmove of do_redistribute_test, entered with registers rg,
\* trace tr and guest memory m: it pushes Move { dest, src, len } read from
\* A0, A1, A2, returns 0 with fix.vm.ret(0) and touches no memory
memmove(rg, tr, m) ==
    [trace |-> Append(tr, [dest |-> rg["A0"], src |-> rg["A1"], len |-> rg["A2"]]),
     a0    |-> 0,
     mem   |-> m]

\* the guest's redistribute_entries calls memmove(dest, src, len)
guest_calls_memmove ==
    /\ rpc = "guest"
    /\ Len(called) < MaxMoves
    /\ \E d \in 0..MaxAddr, sr \in 0..MaxAddr, n \in 0..2 :
          /\ rregs' = [rregs EXCEPT !["A0"] = d, !["A1"] = sr, !["A2"] = n]
          /\ called' = Append(called, <<d, sr, n>>)
    /\ rpc' = "stub"
    /\ UNCHANGED <<trace, nbytes>>
    /\ UNCHANGED others_r

\* the breakpoint at memmove is dispatched to the closure
memmove_stub ==
    /\ rpc = "stub"
    /\ LET r == memmove(rregs, trace, nbytes)
       IN  /\ trace' = r.trace
           /\ rregs' = [rregs EXCEPT !["A0"] = r.a0]
           /\ nbytes' = r.mem
    /\ rpc' = "guest"
    /\ UNCHANGED called
    /\ UNCHANGED others_r

\* redistribute_entries returns to do_redistribute_test
redistribute_returns ==
    /\ rpc = "guest"
    /\ rpc' = "returned"
    /\ UNCHANGED <<rregs, trace, called, nbytes>>
    /\ UNCHANGED others_r

\* check_moves(&moves)?
redistribute_check ==
    /\ rpc = "returned"
    /\ rpc' = check_moves(trace)
    /\ UNCHANGED <<rregs, trace, called, nbytes>>
    /\ UNCHANGED others_r

InitRedist ==
    /\ OthersIdle
    /\ PureIdle
    /\ BlockDevIdle
    /\ AllocIdle
    /\ VmIdle
    /\ HarnessIdle
    /\ rpc = "guest"
    /\ rregs = [r \in {"A0", "A1", "A2"} |-> 0]
    /\ trace = <<>>
    /\ called = <<>>
    /\ nbytes = Nodes0

NextRedist ==
    \/ guest_calls_memmove
    \/ memmove_stub
    \/ redistribute_returns
    \/ redistribute_check

SpecRedist == InitRedist /\ [][NextRedist]_vars

-----------------------------------------------------------------------------
(* Properties *)

\* the wrapper name has returned
Done(name) == w = name /\ pc = 0 /\ result.kind # "none"

RECURSIVE SumLen(_, _)
\* the sum of end - begin over the entries at positions >= i (counted from 0)
SumLen(es, i) ==
    IF i >= Len(es) THEN 0 ELSE (es[i + 1].end - es[i + 1].begin) + SumLen(es, i + 1)

\* what is left of a cursor
Remaining(c) == SumLen(c.entries, c.index)

\* consume_cursor was called with 0 < len <= remaining and its guest copy of
\* the cursor was allocated
C1_Pre ==
    /\ Done("consume_cursor")
    /\ created # {}
    /\ saved.len > 0
    /\ saved.len <= Remaining(saved.cursor)

\* C1: consume_cursor(cursor, k) with 0 < k <= remaining succeeds and leaves
\* remaining smaller by exactly k, also when the k units span several entries.
C1_ConsumeAdvancesExactly ==
    C1_Pre => /\ result.kind = "Ok"
              /\ Remaining(host.cursor) = Remaining(saved.cursor) - saved.len

\* a consume that spans three entries
C1_Witness ==
    /\ C1_Pre
    /\ result.kind = "Ok"
    /\ host.cursor.index = saved.cursor.index + 2
    /\ host.cursor.index < Len(host.cursor.entries)
    /\ \A i \in 1..2 : saved.cursor.entries[saved.cursor.index + i].end
                            > saved.cursor.entries[saved.cursor.index + i].begin
    /\ host.cursor.entries[host.cursor.index + 1].begin
           > saved.cursor.entries[host.cursor.index + 1].begin

C2_Pre == Done("consume_cursor") /\ saved.len > Remaining(saved.cursor)

\* C2: consume_cursor(cursor, k) with k greater than what remains fails and
\* leaves the caller's cursor, index and entries, as it was before the call.
C2_OverrunFailsUnchanged ==
    C2_Pre => result.kind = "Err" /\ host.cursor = saved.cursor

\* the guest stepped over entries of its copy before it ran out
C2_Witness ==
    /\ C2_Pre
    /\ result.err = "GuestErrno"
    /\ saved.cursor.index < Len(saved.cursor.entries)
    /\ Remaining(saved.cursor) > 0

\* the wrappers that own their guest regions through scope guards
GuardedWrappers == BTreeWrappers \cup {"consume_cursor", "redistribute_entries"}

\* C4: when a dm_btree_* wrapper, consume_cursor or redistribute_entries has
\* returned, with Ok or with any error, none of the guest regions it
\* allocated is live.
C4_WrapperFreesItsRegions ==
    \A n \in GuardedWrappers : Done(n) => created \cap DOMAIN mem = {}

\* a wrapper that failed after it had allocated regions
C4_Witness ==
    /\ \E n \in GuardedWrappers : Done(n)
    /\ result.kind = "Err"
    /\ Cardinality(created) >= 2

\* C5 as claimed: the result buffer of the lock wrappers is freed on every
\* return path.
C5_LockResultFreed ==
    \A n \in LockWrappers : Done(n) => created \cap DOMAIN mem = {}

\* C6 as claimed: when test_del_empty has passed, the live allocations are
\* those that were live before the block manager was created.
C6_TeardownRestoresLiveSet ==
    (tname = "test_del_empty" /\ outcome = "Ok") => DOMAIN mem = live0

\* C7: a wrapper of an errno-returning guest function returns Ok only if the
\* guest left zero in A0; when A0 is non-zero it returns an error, has read no
\* output buffer and has left the caller's host-side values unchanged.
C7_NonZeroA0IsError ==
    \A n \in ErrnoWrappers :
        Done(n) =>
            /\ result.kind = "Ok" => a0ret = <<0>>
            /\ (a0ret # <<>> /\ a0ret[1] # 0) =>
                   result.kind = "Err" /\ reads = {} /\ host = saved

\* a lock wrapper whose guest call returned an errno
C7_Witness ==
    /\ \E n \in LockWrappers : Done(n)
    /\ a0ret = <<-ENODATA>>
    /\ result.kind = "Err"

\* the local pointers the wrapper reads back after position i
ReadBack(i) ==
    {prog[j].buf : j \in {k \in (i + 1)..Len(prog) :
                            prog[k].op \in {"read_into", "read_guest"}}}

\* C8 as claimed: when a wrapper calls the guest, the address of every buffer
\* it reads back afterwards is in one of A0..A5.
C8_ReadBackBuffersPassed ==
    (At("call") \/ At("call_with_errno")) =>
        \A buf \in ReadBack(pc) : \E r \in Regs : regs[r] = loc[buf]

\* C9 as claimed: every periodic commit of do_insert_test_ comes after exactly
\* commit_interval inserts, counted from the start or from the periodic commit
\* before it, the count being carried from one pass to the next.
C9_CommitEveryInterval ==
    \A i \in 1..Len(gaps) : gaps[i] = commit_interval

\* C10 as claimed: do_insert_test_ returns Ok only if the residency measured
\* at the end of each pass is at least the scenario's target.
C10_OkImpliesResidency ==
    ret = "Ok" => \A p \in 1..Len(residencies) : residencies[p] >= target

\* the entries of the tree, as pairs <<key, value>>
TreeEntries(t) ==
    UNION {{<<t.nodes[n].keys[i], t.nodes[n].values[i]>> : i \in 1..Len(t.nodes[n].keys)} :
              n \in 1..Len(t.nodes)}

\* the keys of q that the tree does not hold
Missing(t, q) ==
    {i \in 1..Len(q) : \A e \in TreeEntries(t) : e[1] # q[i]}

\* C11: check_keys_present returns Ok exactly when the walk succeeds, every
\* entry of the tree has the value key + 12345 and every key looked for is in
\* the tree.
C11_CheckKeysPresentExact ==
    (fn = "check_keys_present" /\ out # "none") =>
        (out = "Ok" <=> /\ arg.tree.readable
                        /\ \A e \in TreeEntries(arg.tree) : e[2] = e[1] + 12345
                        /\ Missing(arg.tree, arg.keys) = {})

\* a readable tree with right values that lacks one of the two keys looked for
C11_Witness ==
    /\ fn = "check_keys_present"
    /\ out = "Err"
    /\ arg.tree.readable
    /\ \A e \in TreeEntries(arg.tree) : e[2] = e[1] + 12345
    /\ Len(arg.keys) = 2
    /\ Cardinality(Missing(arg.tree, arg.keys)) = 1

\* the addresses written by the first n moves
WrittenBy(moves, n) ==
    UNION {{moves[j].dest + k : k \in 0..(moves[j].len - 1)} : j \in 1..n}

\* C18 as claimed: check_moves succeeds exactly when no move reads an address
\* that an earlier move wrote; what a move writes itself does not count
\* against its own reads.
C18_CheckMovesExact ==
    (fn = "check_moves" /\ out # "none") =>
        (out = "Ok" <=>
            \A i \in 1..Len(arg.moves) :
                \A k \in 0..(arg.moves[i].len - 1) :
                    (arg.moves[i].src + k) \notin WrittenBy(arg.moves, i - 1))

\* C12: after any sequence of read-lock, write-lock, write-lock-zero and
\* unlock requests, every block has at most one write-lock holder and no
\* block has a reader and a writer at once.
C12_LockExclusion ==
    \A b \in Blocks :
        /\ Cardinality(Writers(held, b)) <= 1
        /\ Writers(held, b) = {} \/ Readers(held, b) = {}

\* a write lock was refused on a block that two readers hold
C12_Witness ==
    /\ lret.op \in {"write_lock", "write_lock_zero"}
    /\ ~lret.ok
    /\ Cardinality(Readers(held, lret.b)) = 2

\* the addresses of the allocation at base a
Bytes(m, a) == a..(a + Len(m[a]) - 1)

\* C13: after any sequence of alloc and free, the address ranges of any two
\* live allocations are disjoint.
C13_LiveRangesDisjoint ==
    \A a \in DOMAIN mem : \A b \in DOMAIN mem :
        a # b => Bytes(mem, a) \cap Bytes(mem, b) = {}

\* an allocation placed in the hole a free left between two live allocations
C13_Witness ==
    /\ mop.op = "alloc"
    /\ mop.ok
    /\ mop.arg > 0
    /\ \E a \in DOMAIN mem : a < mop.addr /\ Len(mem[a]) > 0
    /\ \E b \in DOMAIN mem : b = mop.addr + mop.arg /\ Len(mem[b]) > 0

\* C14: free(addr) succeeds only when addr is the base of a live allocation,
\* and then releases that allocation and no other; any other free, a second
\* free of a base and a free of an interior address among them, fails with
\* BadFree and leaves the live allocations as they were.
C14_FreeOnlyLiveBase ==
    mop.op = "free" =>
        /\ mop.ok <=> mop.arg \in DOMAIN mprev
        /\ mop.ok => /\ DOMAIN mem = DOMAIN mprev \ {mop.arg}
                     /\ \A a \in DOMAIN mem : mem[a] = mprev[a]
        /\ ~mop.ok => mop.err = "BadFree" /\ mem = mprev

\* a free of an address inside a live allocation was refused
C14_Witness ==
    /\ mop.op = "free"
    /\ ~mop.ok
    /\ \E b \in DOMAIN mem : b < mop.arg /\ mop.arg < b + Len(mem[b])


\* C15: when a call made by a stub has returned, every register other than the
\* result registers A0 and A1 holds what it held when the stub was entered,
\* whatever the called guest code did to it.
C15_NestedCallPreserves ==
    sphase = "after_nested" =>
        \A r \in VRegs \ {"A0", "A1"} : vregs[r] = outer[r]

\* a stub is back from a call whose guest code left other values in
\* A2, SP and RA
C15_Witness ==
    /\ sphase = "after_nested"
    /\ vst = "Breakpoint"
    /\ left["A2"] # outer["A2"]
    /\ left["SP"] # outer["SP"]
    /\ left["RA"] # outer["RA"]

\* C16: a machine that is Returned or Faulted executes nothing more for that
\* call: the step taken from such a state retires no instruction, fetches
\* nothing and dispatches no stub; and the sentinel address is never fetched.
C16_TerminalIsFinal ==
    [][/\ vst \in Terminal =>
              /\ instrs' = instrs
              /\ dispatched' = dispatched
              /\ fetched' = fetched
       /\ Sentinel \notin fetched']_vars

\* a call that executed instructions has reached the sentinel and returned
C16_Witness ==
    /\ vst = "Returned"
    /\ vpc = Sentinel
    /\ frames # <<>>
    /\ instrs > frames[Len(frames)].instrs

\* C17: the instruction counter never decreases, so a delta taken against an
\* earlier baseline is never negative, across calls, stubs, nested calls and
\* faults.
C17_CounterMonotonic ==
    [][instrs' >= instrs /\ instrs' >= baseline']_vars

\* a nested call has ended after a baseline was taken and the counter went on
C17_Witness ==
    /\ baseline > 0
    /\ instrs > baseline
    /\ sphase = "after_nested"

\* the wrappers that check the length of the key vector first
EnsureWrappers ==
    {"dm_btree_lookup", "dm_btree_lookup_next", "dm_btree_remove",
     "dm_btree_remove_leaves"}

\* C20: dm_btree_lookup, dm_btree_lookup_next, dm_btree_remove and
\* dm_btree_remove_leaves called with a key vector whose length is not
\* info.levels return an error and have allocated no guest memory, written no
\* register and not called the guest: memory, registers and the caller's
\* values are as they were before the call.
C20_KeyLengthCheckedFirst ==
    \A n \in EnsureWrappers :
        (Done(n) /\ Len(saved.keys) # saved.info.levels) =>
            /\ result.kind = "Err"
            /\ result.err = "Ensure"
            /\ created = {}
            /\ regs = NoRegs
            /\ a0ret = <<>>
            /\ reads = {}
            /\ DOMAIN mem = live0
            /\ \E sz \in PreSizes : mem = PreMem(sz)
            /\ host = saved

\* dm_btree_remove refused two keys for a tree of one level while the heap had
\* room for everything it allocates
C20_Witness ==
    /\ Done("dm_btree_remove")
    /\ Len(saved.keys) = 2
    /\ saved.info.levels = 1
    /\ result.err = "Ensure"
    /\ mem = <<>>

\* what consume_cursor took from the entries it passed over, up to position f
PassedOver(c, f) == SumLen(c.entries, c.index) - SumLen(c.entries, f)

\* C19: after a successful consume_cursor the cursor has the same number of
\* entries, each with its node and end; index has not decreased; every entry
\* other than the one at the final index has its begin, the entries passed
\* over included; and the entry at the final index has its begin advanced by
\* what was left of len after the entries passed over.
C19_ConsumeTouchesOnlyFinalBegin ==
    (Done("consume_cursor") /\ result.kind = "Ok") =>
        LET old == saved.cursor
            new == host.cursor
            n   == Len(old.entries)
        IN  /\ Len(new.entries) = n
            /\ new.index >= old.index
            /\ \A i \in 1..n :
                  /\ new.entries[i].node = old.entries[i].node
                  /\ new.entries[i].end = old.entries[i].end
                  /\ i # new.index + 1 => new.entries[i].begin = old.entries[i].begin
            /\ new.index < n =>
                  new.entries[new.index + 1].begin
                      = old.entries[new.index + 1].begin
                            + (saved.len - PassedOver(old, new.index))

\* a consume that took a whole non-empty entry, passed over it and advanced
\* begin of the next one by the rest
C19_Witness ==
    /\ Done("consume_cursor")
    /\ result.kind = "Ok"
    /\ host.cursor.index = saved.cursor.index + 1
    /\ host.cursor.index < Len(host.cursor.entries)
    /\ PassedOver(saved.cursor, host.cursor.index) > 0
    /\ saved.len > PassedOver(saved.cursor, host.cursor.index)
    /\ host.cursor.entries[host.cursor.index + 1].begin
           > saved.cursor.entries[host.cursor.index + 1].begin

\* C21 as claimed: for every Guest implementation of the wrappers, pack
\* writes no more than guest_len() bytes.
C21_PackFitsGuestLen ==
    (fn = "pack" /\ out # "none") => Len(packed) <= Guest_guest_len(arg.ty)

\* C22: unpack applied to the bytes pack wrote gives the value back, for
\* CursorEntry, CopyCursor of up to 3 entries, BTreeValueType and BTreeInfo,
\* and trips neither the entry-count nor the value-size assertion.
C22_UnpackInvertsPack ==
    (fn = "pack" /\ out = "unpacked") =>
        /\ unpacked.st = "Ok"
        /\ unpacked.v = arg.v

\* a cursor of three entries, not all alike, with a two-byte index, was
\* packed and unpacked
C22_Witness ==
    /\ fn = "pack"
    /\ out = "unpacked"
    /\ arg.ty = "CopyCursor"
    /\ Len(arg.v.entries) = MaxCursorEntries
    /\ arg.v.entries[1] # arg.v.entries[2]
    /\ arg.v.entries[2].begin > 255
    /\ arg.v.index > 255
    /\ Len(packed) = CopyCursor_guest_len

\* C23: whenever new, insert, lookup or commit of a BTreeTest has returned Ok,
\* its field sb is the handle of a write lock that is held on block 0.
C23_SbIsHeldWriteLock ==
    bt = "live" =>
        /\ last.ok
        /\ sb \in held
        /\ sb.b = 0
        /\ sb.kind = "write"

\* a commit returned Ok after dm_tm_commit had released the handle it was given
C23_Witness ==
    /\ bt = "live"
    /\ last = [op |-> "commit", ok |-> TRUE]
    /\ unlocks # <<>>
    /\ unlocks[Len(unlocks)].by = "dm_tm_commit"
    /\ unlocks[Len(unlocks)].was_held

\* the ways a BTreeTest ends
HarnessOver == {"new_failed", "dropped", "panicked"}

\* C24 as claimed: every unlock request is made on a handle that is held, and
\* when the BTreeTest is over no handle is left locked.
C24_EachHandleUnlockedOnce ==
    /\ \A i \in 1..Len(unlocks) : unlocks[i].was_held
    /\ bt \in HarnessOver => held = {}

\* C25: drop unlocks the superblock, then destroys the transaction manager,
\* then the block manager, and the block manager is never destroyed while sb
\* is a lock that is held.
C25_DropUnlocksBeforeDestroy ==
    /\ Len(events) <= 3
    /\ \A i \in 1..Len(events) :
          events[i] = <<"dm_bm_unlock", "dm_tm_destroy", "dm_bm_destroy">>[i]
    /\ (\E i \in 1..Len(events) : events[i] = "dm_bm_destroy") => sb \notin held

\* a BTreeTest that had committed was dropped, and drop made its three calls
C25_Witness ==
    /\ bt = "dropped"
    /\ Len(events) = 3
    /\ nops > 0
    /\ \E i \in 1..Len(unlocks) : unlocks[i].by = "drop" /\ unlocks[i].was_held

\* C26: whenever a wrapper is about to read a result buffer back, with
\* read_into or read_guest, the buffer is a live allocation the wrapper made:
\* it has not been freed and its scope guard has not been dropped.
C26_ReadBackBeforeFree ==
    (At("read_into") \/ At("read_guest")) =>
        /\ Cur.buf \in DOMAIN loc
        /\ loc[Cur.buf] \in created
        /\ loc[Cur.buf] \in DOMAIN mem
        /\ \A j \in 1..(pc - 1) : ~(prog[j].op = "free" /\ prog[j].buf = Cur.buf)

\* a lock wrapper is about to read its result buffer, which it frees next
C26_Witness ==
    /\ w \in LockWrappers
    /\ At("read_into")
    /\ pc < Len(prog)
    /\ prog[pc + 1].op = "free"
    /\ prog[pc + 1].buf = Cur.buf
    /\ loc[Cur.buf] \in DOMAIN mem

\* C27: every invocation of the recording memmove stub appends one Move with
\* dest = A0, src = A1, len = A2, so that the trace is the calls in the order
\* they were made; it returns 0 to the guest; and it changes no byte of guest
\* memory, so the node bytes are those from before redistribute_entries.
C27_StubRecordsAndKeepsMemory ==
    /\ Len(trace) = IF rpc = "stub" THEN Len(called) - 1 ELSE Len(called)
    /\ \A i \in 1..Len(trace) :
          trace[i] = [dest |-> called[i][1], src |-> called[i][2], len |-> called[i][3]]
    /\ (rpc = "guest" /\ called # <<>>) => rregs["A0"] = 0
    /\ nbytes = Nodes0

\* two different calls were recorded, the second one of a move that would
\* have changed the nodes, and the trace was checked
C27_Witness ==
    /\ rpc \in {"Ok", "Err"}
    /\ Len(trace) = 2
    /\ trace[1] # trace[2]
    /\ trace[2].len > 0
    /\ trace[2].dest # trace[2].src
    /\ trace[1].dest # 0
====
